---- MODULE Spec2Model ----
(***************************************************************************)
(* Hotel reservation core: the Reservation and Availability aggregates     *)
(* (src/domain/entities.py), the application services                      *)
(* (src/application/services.py) and the in-memory repositories            *)
(* (src/infrastructure/repositories/in_memory_repositories.py).            *)
(*                                                                         *)
(* Dates are whole day numbers, datetimes are whole hour numbers           *)
(* (hour = 24 * day at midnight).  The server clock is UTC, so             *)
(* date.today() is now \div 24.  Money amounts are whole multiples of 100, *)
(* for which Decimal's amount * (percentage / 100) is exact and equals     *)
(* (amount * percentage) \div 100.                                         *)
(***************************************************************************)
EXTENDS Integers, Sequences, FiniteSets, TLC

VARIABLES
    now,        \* the clock, in hours
    res,        \* one Reservation aggregate
    resOut,     \* the last Reservation call: [op, arg, ok, ret]
    avail,      \* one Availability aggregate
    availOut,   \* the last Availability call: [op, ok]
    countLo,    \* the least count a caller of the Availability aggregate passes
    heap,       \* the Availability objects of the process, by object id
    storage,    \* InMemoryAvailabilityRepository._storage: [key, ref] in insertion order
    procs,      \* the AvailabilityService calls, one coroutine each
    reservations, \* InMemoryReservationRepository._storage, in insertion order
    entryOut,   \* the last WaitlistEntry or WaitlistService call: [op, arg, ok, ret]
    waitlist    \* InMemoryWaitlistRepository._storage, in insertion order

vars == <<now, res, resOut, avail, availOut, countLo, heap, storage, procs,
          reservations, entryOut, waitlist>>

resVars == <<res, resOut>>
availVars == <<avail, availOut, countLo>>
repoVars == <<heap, storage, procs>>
waitVars == <<entryOut, waitlist>>

(***************************************************************************)
(* Bounds of the model.                                                    *)
(***************************************************************************)
MaxDay == 2
MaxNights == 2
MaxVersion == 3
MaxRequests == 1
MaxRooms == 10
MaxOverbook == 1
MaxAvailVersion == 4
NumCalls == 3
NumDates == 2
MaxSvcRooms == 2
MaxSvcMutations == 3
MaxReservations == 1
MaxCreated == 2
MaxChkMutations == 1
MaxWaitDays == 4
MaxExtendDays == 1
MaxEntries == 2
MaxSortDays == 1
MaxRequestList == 2
MaxAnyRooms == 2
MaxNightMutations == 2
MaxExpiryDays == 15
NumRaceCalls == 3

(***************************************************************************)
(* Program constants.                                                      *)
(***************************************************************************)
HoursPerDay == 24
ModifyCutoffHours == 24
BaseRate == 1000000
MaxStayNights == 30
LOW == 1
MEDIUM == 2
HIGH == 3
URGENT == 4
WaitlistDays == 14
ReminderDays == 3

ReservationStatus ==
    {"PENDING", "CONFIRMED", "CHECKED_IN", "CHECKED_OUT", "CANCELLED", "NO_SHOW"}
\* RequestType: two of the eight members, which behave alike
RequestType == {"EARLY_CHECK_IN", "LATE_CHECK_OUT"}

\* The request types passed to add_special_request: a member, and a value that
\* is not an instance of RequestType
RequestArgs == {"EARLY_CHECK_IN", "INVALID_TYPE"}
RoomTypes == {"DELUXE", "SUITE"}

\* Optional arguments: None is the empty tuple, a given value x is <<x>>
None == <<>>
Some(x) == <<x>>
Optional(S) == {None} \cup {Some(x) : x \in S}

\* date.today()
Today(t) == t \div HoursPerDay

\* datetime.combine(d, datetime.min.time())
Midnight(d) == d * HoursPerDay

Days == 0..MaxDay

\* DateRange: the validator refuses check_out <= check_in
DateRange == {dr \in [check_in : Days, check_out : 1..(MaxDay + MaxNights)] :
                 /\ dr.check_out > dr.check_in
                 /\ dr.check_out - dr.check_in <= MaxNights}

\* DateRange.nights
nights(dr) == dr.check_out - dr.check_in

\* GuestCount: adults in 1..10, children in 0..10
GuestCount == {[adults |-> 1, children |-> 0], [adults |-> 2, children |-> 1]}

\* Money: Field(gt=0) refuses amount <= 0 at construction
MoneyValid(amount) == amount > 0

\* CancellationPolicy: refund_percentage in 0..100, deadline_hours >= 0
RefundPercents == {0, 80}
DeadlineHours == {0, 24}
CancellationPolicy == [refund_percentage : RefundPercents, deadline_hours : DeadlineHours]

InitialAmounts == {100, BaseRate}
InitialGuests == [adults |-> 1, children |-> 0]
InitialRoomType == "DELUXE"

(***************************************************************************)
(* Reservation aggregate.  Every method is an operator from the aggregate  *)
(* (and the clock) to [ok, r, ret]: ok = FALSE is a raised ValueError, r   *)
(* the aggregate after the call, ret the returned amount (0 when the       *)
(* method returns nothing).                                                *)
(***************************************************************************)
Raised(r) == [ok |-> FALSE, r |-> r, ret |-> 0]
Done(r, ret) == [ok |-> TRUE, r |-> r, ret |-> ret]

_validate_date_range_Unbounded(dr, t) ==
    /\ ~(dr.check_in < Today(t))
    /\ ~(nights(dr) < 1)

\* Reservation._validate_date_range
_validate_date_range(dr, t) ==
    /\ ~(dr.check_in < Today(t))
    /\ ~(nights(dr) < 1)
    /\ ~(nights(dr) > MaxStayNights)

\* Reservation._validate_guest_count
_validate_guest_count(gc) ==
    /\ ~(gc.adults < 1)
    /\ ~(gc.adults + gc.children <= 0)

\* Reservation._validate_amount
_validate_amount(amount) == ~(amount <= 0)

\* Reservation.create (after its validation passed)
create(room_type_id, dr, gc, amount, policy) ==
    [status |-> "PENDING", version |-> 1, special_requests |-> <<>>,
     room_type_id |-> room_type_id, date_range |-> dr, guest_count |-> gc,
     total_amount |-> [amount |-> amount, currency |-> "IDR"],
     cancellation_policy |-> policy]

\* Reservation._generate_confirmation_code draws 8 characters at random:
\* any code can come out of any call.  Two codes stand for all of them.
ConfirmationCodes == {"AAAAAAAA", "AAAAAAAB"}

\* Reservation.create: the validations, then the generated code and the
\* constructor
Reservation_create(room_type_id, dr, gc, amount, policy, t, confirmation_code) ==
    IF /\ _validate_date_range(dr, t)
       /\ _validate_guest_count(gc)
       /\ _validate_amount(amount)
    THEN Done([confirmation_code |-> confirmation_code]
                  @@ create(room_type_id, dr, gc, amount, policy), 0)
    ELSE Raised(<<>>)

is_modifiable_StatusOnly(r, t) == r.status \in {"PENDING", "CONFIRMED"}

\* Reservation.is_modifiable
is_modifiable(r, t) ==
    IF r.status \notin {"PENDING", "CONFIRMED"} THEN FALSE
    ELSE IF Midnight(r.date_range.check_in) - t < ModifyCutoffHours THEN FALSE
    ELSE TRUE

\* Reservation.is_cancellable
is_cancellable(r) == r.status \in {"PENDING", "CONFIRMED"}

_recalculate_amount_Stale(r) == r

_recalculate_amount_DefaultCurrency(r) ==
    [r EXCEPT !.total_amount = [amount |-> nights(r.date_range) * BaseRate,
                                currency |-> "IDR"]]

\* Reservation._recalculate_amount
_recalculate_amount(r) ==
    [r EXCEPT !.total_amount = [amount |-> nights(r.date_range) * BaseRate,
                                currency |-> r.total_amount.currency]]

\* Reservation.modify
modify(r, t, new_date_range, new_guest_count, new_room_type_id) ==
    IF ~is_modifiable(r, t) THEN Raised(r)
    ELSE IF new_date_range # None /\ ~_validate_date_range(new_date_range[1], t)
    THEN Raised(r)
    ELSE LET r1 == IF new_date_range # None
                   THEN [r EXCEPT !.date_range = new_date_range[1]] ELSE r
             r2 == IF new_guest_count # None
                   THEN [r1 EXCEPT !.guest_count = new_guest_count[1]] ELSE r1
             r3 == IF new_room_type_id # None
                   THEN [r2 EXCEPT !.room_type_id = new_room_type_id[1]] ELSE r2
             r4 == _recalculate_amount(r3)
         IN  IF new_guest_count # None /\ ~_validate_guest_count(new_guest_count[1])
             THEN Raised(r1)
             ELSE Done([r4 EXCEPT !.version = r.version + 1], 0)

\* Reservation.add_special_request
add_special_request(r, request_type) ==
    IF request_type \notin RequestType THEN Raised(r)
    ELSE Done([r EXCEPT !.special_requests = Append(r.special_requests, request_type),
                        !.version = r.version + 1], 0)

confirm_Unpaid(r, payment_confirmed) ==
    IF r.status # "PENDING" THEN Raised(r)
    ELSE Done([r EXCEPT !.status = "CONFIRMED", !.version = r.version + 1], 0)

confirm_AnyStatus(r, payment_confirmed) ==
    IF ~payment_confirmed THEN Raised(r)
    ELSE Done([r EXCEPT !.status = "CONFIRMED", !.version = r.version + 1], 0)

confirm_StatusFirst(r, payment_confirmed) ==
    IF r.status # "PENDING" THEN Raised(r)
    ELSE IF ~payment_confirmed THEN Raised([r EXCEPT !.status = "CONFIRMED"])
    ELSE Done([r EXCEPT !.status = "CONFIRMED", !.version = r.version + 1], 0)

\* Reservation.confirm
confirm(r, payment_confirmed) ==
    IF r.status # "PENDING" THEN Raised(r)
    ELSE IF ~payment_confirmed THEN Raised(r)
    ELSE Done([r EXCEPT !.status = "CONFIRMED", !.version = r.version + 1], 0)

check_in_AnyDay(r, t) ==
    IF r.status \notin {"PENDING", "CONFIRMED"} THEN Raised(r)
    ELSE Done([r EXCEPT !.status = "CHECKED_IN", !.version = r.version + 1], 0)

\* Reservation.check_in
check_in(r, t) ==
    IF r.status \notin {"PENDING", "CONFIRMED"} THEN Raised(r)
    ELSE IF r.date_range.check_in > Today(t) THEN Raised(r)
    ELSE Done([r EXCEPT !.status = "CHECKED_IN", !.version = r.version + 1], 0)

check_out_KeepsVersion(r) ==
    IF r.status # "CHECKED_IN" THEN Raised(r)
    ELSE Done([r EXCEPT !.status = "CHECKED_OUT"], r.total_amount.amount)

\* Reservation.check_out
check_out(r) ==
    IF r.status # "CHECKED_IN" THEN Raised(r)
    ELSE Done([r EXCEPT !.status = "CHECKED_OUT", !.version = r.version + 1],
              r.total_amount.amount)

\* Reservation.calculate_refund: [ok, amount, currency]; ok = FALSE when
\* Money(amount=refund_amount) refuses the amount
calculate_refund(r, cancellation_date) ==
    LET hours_until_checkin ==
            Midnight(r.date_range.check_in) - Midnight(cancellation_date)
        refund_amount ==
            IF hours_until_checkin >= r.cancellation_policy.deadline_hours
            THEN r.total_amount.amount
            ELSE (r.total_amount.amount * r.cancellation_policy.refund_percentage) \div 100
    IN  [ok |-> MoneyValid(refund_amount), amount |-> refund_amount,
         currency |-> r.total_amount.currency]

\* Reservation.cancel
cancel(r, t) ==
    IF ~is_cancellable(r) THEN Raised(r)
    ELSE LET refund == calculate_refund(r, Today(t))
         IN  IF ~refund.ok THEN Raised(r)
             ELSE Done([r EXCEPT !.status = "CANCELLED", !.version = r.version + 1],
                       refund.amount)

\* Reservation.mark_no_show
mark_no_show(r) ==
    IF r.status \notin {"PENDING", "CONFIRMED"} THEN Raised(r)
    ELSE Done([r EXCEPT !.status = "NO_SHOW", !.version = r.version + 1], 0)

(***************************************************************************)
(* Availability aggregate.  Every mutator is an operator from the row and  *)
(* the count to [ok, a]: ok = FALSE is a raised ValueError, a the row      *)
(* after the call.                                                         *)
(***************************************************************************)
\* Availability(...) as AvailabilityService.create_availability builds it
Availability(room_type_id, availability_date, total_rooms, overbooking_threshold) ==
    [room_type_id |-> room_type_id, availability_date |-> availability_date,
     total_rooms |-> total_rooms, reserved_rooms |-> 0, blocked_rooms |-> 0,
     overbooking_threshold |-> overbooking_threshold, version |-> 1]

AvRaised(a) == [ok |-> FALSE, a |-> a]
AvDone(a) == [ok |-> TRUE, a |-> a]

\* Availability.available_rooms
available_rooms(a) == a.total_rooms - a.reserved_rooms - a.blocked_rooms

\* Availability.can_overbook
can_overbook(a) ==
    LET current_overbooking == IF -available_rooms(a) > 0 THEN -available_rooms(a) ELSE 0
    IN  current_overbooking < a.overbooking_threshold

check_availability_Strict(a, count) ==
    available_rooms(a) > count \/ available_rooms(a) + a.overbooking_threshold > count

\* Availability.check_availability
check_availability(a, count) ==
    available_rooms(a) >= count \/ available_rooms(a) + a.overbooking_threshold >= count

\* Availability.reserve_rooms
reserve_rooms(a, count) ==
    IF ~check_availability(a, count) THEN AvRaised(a)
    ELSE AvDone([a EXCEPT !.reserved_rooms = a.reserved_rooms + count,
                          !.version = a.version + 1])

release_rooms_Unchecked(a, count) ==
    AvDone([a EXCEPT !.reserved_rooms = a.reserved_rooms - count,
                     !.version = a.version + 1])

release_rooms_Strict(a, count) ==
    IF count >= a.reserved_rooms THEN AvRaised(a)
    ELSE AvDone([a EXCEPT !.reserved_rooms = a.reserved_rooms - count,
                          !.version = a.version + 1])

\* Availability.release_rooms
release_rooms(a, count) ==
    IF count > a.reserved_rooms THEN AvRaised(a)
    ELSE AvDone([a EXCEPT !.reserved_rooms = a.reserved_rooms - count,
                          !.version = a.version + 1])

block_rooms_Available(a, count) ==
    IF count > available_rooms(a) THEN AvRaised(a)
    ELSE AvDone([a EXCEPT !.blocked_rooms = a.blocked_rooms + count,
                          !.version = a.version + 1])

\* Availability.block_rooms
block_rooms(a, count) ==
    IF a.blocked_rooms + count > a.total_rooms THEN AvRaised(a)
    ELSE AvDone([a EXCEPT !.blocked_rooms = a.blocked_rooms + count,
                          !.version = a.version + 1])

\* Availability.unblock_rooms
unblock_rooms(a, count) ==
    IF count > a.blocked_rooms THEN AvRaised(a)
    ELSE AvDone([a EXCEPT !.blocked_rooms = a.blocked_rooms - count,
                          !.version = a.version + 1])

\* The mutator a call names
Mutate(op, a, count) ==
    CASE op = "reserve_rooms" -> reserve_rooms(a, count)
      [] op = "release_rooms" -> release_rooms(a, count)
      [] op = "block_rooms" -> block_rooms(a, count)
      [] op = "unblock_rooms" -> unblock_rooms(a, count)

(***************************************************************************)
(* InMemoryAvailabilityRepository.  Python holds objects by reference: the *)
(* repository's dict maps a key to an object of the heap, and what a find  *)
(* returns are those very objects, not copies.                             *)
(***************************************************************************)
\* The composite key (room_type_id, availability_date)
Key(a) == <<a.room_type_id, a.availability_date>>

\* The position of a key in the dict, 0 when it is absent
Position(st, key) ==
    IF \E i \in 1..Len(st) : st[i].key = key
    THEN CHOOSE i \in 1..Len(st) : st[i].key = key
    ELSE 0

\* InMemoryAvailabilityRepository.save
save(st, hp, ref) ==
    LET i == Position(st, Key(hp[ref]))
    IN  IF i # 0 THEN [st EXCEPT ![i].ref = ref]
        ELSE Append(st, [key |-> Key(hp[ref]), ref |-> ref])

\* InMemoryAvailabilityRepository.find_by_room_and_date
find_by_room_and_date(st, room_type_id, availability_date) ==
    LET i == Position(st, <<room_type_id, availability_date>>)
    IN  IF i # 0 THEN Some(st[i].ref) ELSE None

\* The dict entries of a room type with start_date <= d < end_date
InRange(st, room_type_id, start_date, end_date) ==
    SelectSeq(st, LAMBDA e : /\ e.key[1] = room_type_id
                             /\ start_date <= e.key[2] /\ e.key[2] < end_date)

find_by_room_and_date_range_Copies(hp, st, room_type_id, start_date, end_date) ==
    LET found == InRange(st, room_type_id, start_date, end_date)
    IN  [heap |-> hp \o [i \in 1..Len(found) |-> hp[found[i].ref]],
         rows |-> [i \in 1..Len(found) |-> Len(hp) + i]]

find_by_room_and_date_range_Inclusive(hp, st, room_type_id, start_date, end_date) ==
    LET found == InRange(st, room_type_id, start_date, end_date + 1)
    IN  [heap |-> hp, rows |-> [i \in 1..Len(found) |-> found[i].ref]]

\* InMemoryAvailabilityRepository.find_by_room_and_date_range: [heap, rows],
\* the heap as the call leaves it and the objects found, in dict order
find_by_room_and_date_range(hp, st, room_type_id, start_date, end_date) ==
    LET found == InRange(st, room_type_id, start_date, end_date)
    IN  [heap |-> hp, rows |-> [i \in 1..Len(found) |-> found[i].ref]]

\* InMemoryAvailabilityRepository.update: [ok, st], ok = FALSE is the raised
\* ValueError("Availability not found")
update(st, hp, ref) ==
    LET i == Position(st, Key(hp[ref]))
    IN  IF i # 0 THEN [ok |-> TRUE, st |-> [st EXCEPT ![i].ref = ref]]
        ELSE [ok |-> FALSE, st |-> st]

\* The row the repository holds for a key
Stored(hp, st, i) == hp[st[i].ref]

(***************************************************************************)
(* AvailabilityService.  A call is a coroutine: the repository's find      *)
(* (await), then per row the aggregate's mutator (synchronous) and the     *)
(* repository's update (await).  Other coroutines may run at each await.   *)
(***************************************************************************)
Idle == [pc |-> "idle", op |-> "none", count |-> 0,
         rows |-> <<>>, i |-> 0, result |-> FALSE, pre |-> <<>>]

ServiceOps == {"reserve_rooms", "release_rooms", "block_rooms", "unblock_rooms"}

Returns(c, result) == [c EXCEPT !.pc = "returned", !.result = result]

\* What a returned reserve_rooms / release_rooms call adds to reserved_rooms
Credit(c) ==
    IF ~c.result THEN 0
    ELSE IF c.op = "reserve_rooms" THEN c.count
    ELSE IF c.op = "release_rooms" THEN -c.count
    ELSE 0

\* AvailabilityService.<op>, to the first await's return: find the rows, and
\* return False when there are none
CallWith(frame, p, op, room_type_id, start_date, end_date, count) ==
    LET f == find_by_room_and_date_range(heap, storage, room_type_id, start_date, end_date)
        c == [frame EXCEPT !.op = op,
                           !.count = count, !.rows = f.rows, !.pre = f.heap]
    IN  /\ procs[p].pc = "idle"
        /\ heap' = f.heap
        /\ procs' = [procs EXCEPT ![p] =
                        IF f.rows = <<>> THEN Returns(c, FALSE)
                        ELSE [c EXCEPT !.pc = "mutate", !.i = 1]]
        /\ UNCHANGED <<now, resVars, availVars, storage, reservations, waitVars>>

Call(p, op, room_type_id, start_date, end_date, count) ==
    CallWith(Idle, p, op, room_type_id, start_date, end_date, count)

\* The same call, its frame keeping the range it was called with
RangeCall(p, op, room_type_id, start_date, end_date, count) ==
    CallWith(Idle @@ [start_date |-> start_date, end_date |-> end_date],
             p, op, room_type_id, start_date, end_date, count)

\* AvailabilityService.check_availability: find the rows (await), then, with
\* no await in between, False when there are none or when one of them
\* refuses required_count, True otherwise
service_check_availability(p, room_type_id, start_date, end_date, required_count) ==
    LET f == find_by_room_and_date_range(heap, storage, room_type_id, start_date, end_date)
        c == [Idle EXCEPT !.op = "check_availability", !.count = required_count]
        result == /\ f.rows # <<>>
                  /\ \A j \in 1..Len(f.rows) :
                        check_availability(f.heap[f.rows[j]], required_count)
    IN  /\ procs[p].pc = "idle"
        /\ heap' = f.heap
        /\ procs' = [procs EXCEPT ![p] = Returns(c, result)]
        /\ UNCHANGED <<now, resVars, availVars, storage, reservations, waitVars>>

MutateStep_RollsBack(p) ==
    LET c == procs[p]
        ref == c.rows[c.i]
        o == Mutate(c.op, heap[ref], c.count)
    IN  /\ c.pc = "mutate"
        /\ heap' = IF o.ok THEN [heap EXCEPT ![ref] = o.a]
                   ELSE [r \in 1..Len(heap) |-> IF r <= Len(c.pre) THEN c.pre[r] ELSE heap[r]]
        /\ procs' = [procs EXCEPT ![p] =
                        IF o.ok THEN [c EXCEPT !.pc = "persist"] ELSE Returns(c, FALSE)]
        /\ UNCHANGED <<now, resVars, availVars, storage, reservations, waitVars>>

\* avail.<op>(count) on the next row; a ValueError ends the call with False
MutateStep(p) ==
    LET c == procs[p]
        ref == c.rows[c.i]
        o == Mutate(c.op, heap[ref], c.count)
    IN  /\ c.pc = "mutate"
        /\ heap' = [heap EXCEPT ![ref] = o.a]
        /\ procs' = [procs EXCEPT ![p] =
                        IF o.ok THEN [c EXCEPT !.pc = "persist"] ELSE Returns(c, FALSE)]
        /\ UNCHANGED <<now, resVars, availVars, storage, reservations, waitVars>>

\* await self.repository.update(avail), then the next row or return True
PersistStep(p) ==
    LET c == procs[p]
        u == update(storage, heap, c.rows[c.i])
        after == IF ~u.ok THEN Returns(c, FALSE)
                 ELSE IF c.i = Len(c.rows) THEN Returns(c, TRUE)
                 ELSE [c EXCEPT !.pc = "mutate", !.i = c.i + 1]
    IN  /\ c.pc = "persist"
        /\ storage' = u.st
        /\ procs' = [procs EXCEPT ![p] = after]
        /\ UNCHANGED <<now, resVars, availVars, heap, reservations, waitVars>>

\* The caller takes the result and may call again
Finish(p) ==
    /\ procs[p].pc = "returned"
    /\ procs' = [procs EXCEPT ![p] = Idle]
    /\ UNCHANGED <<now, resVars, availVars, heap, storage, reservations, waitVars>>

\* A coroutine still holds the object
Held(ref) == \E p \in DOMAIN procs : \E j \in 1..Len(procs[p].rows) : procs[p].rows[j] = ref

\* AvailabilityService.create_availability: a new object is saved under its
\* key; the object it replaces there, when no coroutine holds it, is
\* unreachable and gives its place to the new one
create_availability(room_type_id, availability_date, total_rooms, overbooking_threshold) ==
    LET old == find_by_room_and_date(storage, room_type_id, availability_date)
        reuse == old # None /\ ~Held(old[1])
        ref == IF reuse THEN old[1] ELSE Len(heap) + 1
        availability == Availability(room_type_id, availability_date, total_rooms,
                                     overbooking_threshold)
        hp == IF reuse THEN [heap EXCEPT ![ref] = availability]
              ELSE Append(heap, availability)
    IN  /\ reuse \/ Len(heap) < NumDates
        /\ heap' = hp
        /\ storage' = save(storage, hp, ref)
        /\ UNCHANGED <<now, resVars, availVars, procs, reservations, waitVars>>

(***************************************************************************)
(* The Reservation aggregate under any sequence of calls.                  *)
(***************************************************************************)
ResCall(op, o) ==
    /\ res' = o.r
    /\ resOut' = [op |-> op, arg |-> 0, ok |-> o.ok, ret |-> o.ret]
    /\ UNCHANGED <<now, availVars, repoVars, reservations, waitVars>>

\* The arguments of a modify call: nothing, new dates, a new guest count or a
\* new room type
ModifyArgs ==
    {<<dr, None, None>> : dr \in Optional(DateRange)}
    \cup {<<None, Some(gc), None>> : gc \in GuestCount \ {InitialGuests}}
    \cup {<<None, None, Some(rt)>> : rt \in RoomTypes \ {InitialRoomType}}

ResModify ==
    \E args \in ModifyArgs :
        /\ res.version < MaxVersion
        /\ ResCall("modify", modify(res, now, args[1], args[2], args[3]))

ResAddSpecialRequest ==
    \E rq \in RequestArgs :
        /\ res.version < MaxVersion
        /\ Len(res.special_requests) < MaxRequests
        /\ ResCall("add_special_request", add_special_request(res, rq))

ResConfirm ==
    \E paid \in BOOLEAN : ResCall("confirm", confirm(res, paid))

ResCheckIn == ResCall("check_in", check_in(res, now))

ResCheckOut == ResCall("check_out", check_out(res))

ResCancel == ResCall("cancel", cancel(res, now))

ResMarkNoShow == ResCall("mark_no_show", mark_no_show(res))

ResCalculateRefund ==
    \E d \in Days :
        LET refund == calculate_refund(res, d)
        IN  /\ resOut' = [op |-> "calculate_refund", arg |-> d, ok |-> refund.ok,
                          ret |-> IF refund.ok THEN refund.amount ELSE 0]
            /\ UNCHANGED <<now, res, availVars, repoVars, reservations, waitVars>>

\* The clock advances by half a day
Tick ==
    /\ now + HoursPerDay \div 2 <= Midnight(MaxDay)
    /\ now' = now + HoursPerDay \div 2
    /\ UNCHANGED <<resVars, availVars, repoVars, reservations, waitVars>>

(***************************************************************************)
(* WaitlistEntry aggregate.  Every method is an operator from the entry    *)
(* (and the clock) to [ok, e]: ok = FALSE is a raised ValueError, e the    *)
(* entry after the call.  A timedelta's .days is the floor of its hours    *)
(* over 24.                                                                *)
(***************************************************************************)
Priority == {LOW, MEDIUM, HIGH, URGENT}
WaitlistStatus == {"ACTIVE", "CONVERTED", "EXPIRED", "CANCELLED"}

\* timedelta.days
DaysOf(hours) == hours \div HoursPerDay

EntRaised(e) == [ok |-> FALSE, e |-> e]
EntDone(e) == [ok |-> TRUE, e |-> e]

\* WaitlistEntry.add_to_waitlist
add_to_waitlist(room_type_id, priority, t) ==
    [room_type_id |-> room_type_id, priority |-> priority, status |-> "ACTIVE",
     created_at |-> t, expires_at |-> t + WaitlistDays * HoursPerDay,
     notified_at |-> None, converted_reservation_id |-> None]

convert_to_reservation_Again(e, reservation_id) ==
    EntDone([e EXCEPT !.status = "CONVERTED",
                      !.converted_reservation_id = Some(reservation_id)])

\* WaitlistEntry.convert_to_reservation
convert_to_reservation(e, reservation_id) ==
    IF e.status # "ACTIVE" THEN EntRaised(e)
    ELSE EntDone([e EXCEPT !.status = "CONVERTED",
                           !.converted_reservation_id = Some(reservation_id)])

expire_AnyStatus(e) == EntDone([e EXCEPT !.status = "EXPIRED"])

\* WaitlistEntry.expire
expire(e) ==
    IF e.status = "ACTIVE" THEN EntDone([e EXCEPT !.status = "EXPIRED"]) ELSE EntDone(e)

WaitlistEntry_cancel_ClearsConversion(e) ==
    IF e.status = "ACTIVE" THEN EntDone([e EXCEPT !.status = "CANCELLED"])
    ELSE EntDone([e EXCEPT !.converted_reservation_id = None])

\* WaitlistEntry.cancel
WaitlistEntry_cancel(e) ==
    IF e.status = "ACTIVE" THEN EntDone([e EXCEPT !.status = "CANCELLED"]) ELSE EntDone(e)

extend_expiry_AnyStatus(e, additional_days) ==
    EntDone([e EXCEPT !.expires_at = e.expires_at + additional_days * HoursPerDay])

\* WaitlistEntry.extend_expiry
extend_expiry(e, additional_days) ==
    IF e.status = "ACTIVE"
    THEN EntDone([e EXCEPT !.expires_at = e.expires_at + additional_days * HoursPerDay])
    ELSE EntDone(e)

upgrade_priority_Any(e, new_priority) == EntDone([e EXCEPT !.priority = new_priority])

\* WaitlistEntry.upgrade_priority
upgrade_priority(e, new_priority) ==
    IF new_priority > e.priority THEN EntDone([e EXCEPT !.priority = new_priority])
    ELSE EntDone(e)

\* WaitlistEntry.mark_notified
mark_notified(e, t) == EntDone([e EXCEPT !.notified_at = Some(t)])

\* WaitlistEntry.is_expired
is_expired(e, t) == t > e.expires_at /\ e.status = "ACTIVE"

should_notify_again_Once(e, t) == e.notified_at = None

\* WaitlistEntry.should_notify_again
should_notify_again(e, t) ==
    IF e.notified_at = None THEN TRUE
    ELSE DaysOf(t - e.notified_at[1]) >= ReminderDays

\* WaitlistEntry.calculate_priority_score
calculate_priority_score(e, t) ==
    LET days_waiting == DaysOf(t - e.created_at)
        days_to_expiry == DaysOf(e.expires_at - t)
    IN  e.priority * 100 + days_waiting * 2 + (14 - days_to_expiry) * 5

NoEntryCall == [op |-> "none", id |-> 0, arg |-> 0, ok |-> TRUE, ret |-> None]

\* No waitlist entry has been stored
InitWaitIdle ==
    /\ entryOut = NoEntryCall
    /\ waitlist = <<>>

NoCall == [op |-> "create", arg |-> 0, ok |-> TRUE, ret |-> 0]
IdleAvail == Availability(InitialRoomType, 0, 0, 0)
NoAvailCall == [op |-> "create", ok |-> TRUE]

InitRes ==
    /\ now = 0
    /\ \E dr \in DateRange, amount \in InitialAmounts, policy \in CancellationPolicy :
          /\ _validate_date_range(dr, now)
          /\ _validate_amount(amount)
          /\ res = create(InitialRoomType, dr, InitialGuests, amount, policy)
    /\ resOut = NoCall
    /\ avail = IdleAvail
    /\ availOut = NoAvailCall
    /\ countLo = 1
    /\ heap = <<>>
    /\ storage = <<>>
    /\ procs = <<>>
    /\ reservations = <<>>
    /\ InitWaitIdle

NextRes ==
    \/ ResModify
    \/ ResAddSpecialRequest
    \/ ResConfirm
    \/ ResCheckIn
    \/ ResCheckOut
    \/ ResCancel
    \/ ResMarkNoShow
    \/ ResCalculateRefund
    \/ Tick

SpecRes == InitRes /\ [][NextRes]_vars

(***************************************************************************)
(* Reservation.modify over its arguments: stays of 1, 30 and 31 nights,    *)
(* every combination of given and omitted arguments, amounts in two        *)
(* currencies.                                                             *)
(***************************************************************************)
Currencies == {"IDR", "USD"}

\* Date ranges of 1 night, of the longest stay and of one night more
StayRanges ==
    {[check_in |-> d, check_out |-> d + n] :
        d \in Days, n \in {1, MaxStayNights, MaxStayNights + 1}}

ModArgs ==
    {<<dr, gc, rt>> : dr \in Optional(StayRanges),
                      gc \in Optional(GuestCount \ {InitialGuests}),
                      rt \in Optional(RoomTypes \ {InitialRoomType})}

ModModify ==
    \E args \in ModArgs :
        /\ res.version < MaxVersion
        /\ ResCall("modify", modify(res, now, args[1], args[2], args[3]))

InitMod ==
    /\ now = 0
    /\ \E dr \in StayRanges, amount \in InitialAmounts, currency \in Currencies :
          /\ _validate_date_range(dr, now)
          /\ _validate_amount(amount)
          /\ res = [create(InitialRoomType, dr, InitialGuests, amount,
                           [refund_percentage |-> 80, deadline_hours |-> 24])
                      EXCEPT !.total_amount.currency = currency]
    /\ resOut = NoCall
    /\ avail = IdleAvail
    /\ availOut = NoAvailCall
    /\ countLo = 1
    /\ heap = <<>>
    /\ storage = <<>>
    /\ procs = <<>>
    /\ reservations = <<>>
    /\ InitWaitIdle

NextMod ==
    \/ ModModify
    \/ ResConfirm
    \/ ResCheckIn
    \/ ResMarkNoShow
    \/ Tick

SpecMod == InitMod /\ [][NextMod]_vars

(***************************************************************************)
(* The Availability aggregate under any sequence of calls.                 *)
(***************************************************************************)
\* The counts a caller passes
Counts == countLo..(MaxRooms + MaxOverbook + 1)

AvCall(op, count) ==
    LET o == Mutate(op, avail, count)
    IN  /\ avail.version < MaxAvailVersion
        /\ avail' = o.a
        /\ availOut' = [op |-> op, ok |-> o.ok]
        /\ UNCHANGED <<now, resVars, countLo, repoVars, reservations, waitVars>>

AvReserveRooms(count) == AvCall("reserve_rooms", count)
AvReleaseRooms(count) == AvCall("release_rooms", count)
AvBlockRooms(count) == AvCall("block_rooms", count)
AvUnblockRooms(count) == AvCall("unblock_rooms", count)

InitAvail ==
    /\ now = 0
    /\ res = create(InitialRoomType, [check_in |-> 0, check_out |-> 1], InitialGuests,
                    BaseRate, [refund_percentage |-> 80, deadline_hours |-> 24])
    /\ resOut = NoCall
    /\ \E total_rooms \in 0..MaxRooms, overbooking_threshold \in 0..MaxOverbook :
          avail = Availability(InitialRoomType, 0, total_rooms, overbooking_threshold)
    /\ availOut = NoAvailCall
    /\ countLo = 1
    /\ heap = <<>>
    /\ storage = <<>>
    /\ procs = <<>>
    /\ reservations = <<>>
    /\ InitWaitIdle

NextAvail ==
    \/ \E count \in Counts : AvReserveRooms(count)
    \/ \E count \in Counts : AvReleaseRooms(count)
    \/ \E count \in Counts : AvBlockRooms(count)
    \/ \E count \in Counts : AvUnblockRooms(count)

SpecAvail == InitAvail /\ [][NextAvail]_vars

(***************************************************************************)
(* The Availability aggregate called with any integer count, zero and      *)
(* negative counts included (SpecAny).                                     *)
(***************************************************************************)
InitAny ==
    /\ now = 0
    /\ res = create(InitialRoomType, [check_in |-> 0, check_out |-> 1], InitialGuests,
                    BaseRate, [refund_percentage |-> 80, deadline_hours |-> 24])
    /\ resOut = NoCall
    /\ \E total_rooms \in 0..MaxAnyRooms, overbooking_threshold \in 0..MaxOverbook :
          avail = Availability(InitialRoomType, 0, total_rooms, overbooking_threshold)
    /\ availOut = NoAvailCall
    /\ countLo = -1
    /\ heap = <<>>
    /\ storage = <<>>
    /\ procs = <<>>
    /\ reservations = <<>>
    /\ InitWaitIdle

SpecAny == InitAny /\ [][NextAvail]_vars

(***************************************************************************)
(* Concurrent reserve_rooms and release_rooms calls on one stored row.     *)
(***************************************************************************)
ConcCounts == {1, 6}
ConcReserved == {0, 6}

InitConc ==
    /\ now = 0
    /\ res = create(InitialRoomType, [check_in |-> 0, check_out |-> 1], InitialGuests,
                    BaseRate, [refund_percentage |-> 80, deadline_hours |-> 24])
    /\ resOut = NoCall
    /\ avail = IdleAvail
    /\ availOut = NoAvailCall
    /\ countLo = 1
    /\ \E overbooking_threshold \in 0..MaxOverbook, reserved_rooms \in ConcReserved :
          /\ heap = <<[Availability(InitialRoomType, 0, MaxRooms, overbooking_threshold)
                        EXCEPT !.reserved_rooms = reserved_rooms]>>
    /\ storage = <<[key |-> Key(heap[1]), ref |-> 1]>>
    /\ procs = [p \in 1..NumCalls |-> Idle]
    /\ reservations = <<>>
    /\ InitWaitIdle

NextConc ==
    \/ \E p \in 1..NumCalls, op \in {"reserve_rooms", "release_rooms"}, count \in ConcCounts :
          \* the coroutines are numbered in the order in which they are called
          /\ \A q \in 1..(p - 1) : procs[q].pc # "idle"
          /\ Call(p, op, InitialRoomType, 0, 1, count)
    \/ \E p \in 1..NumCalls : MutateStep(p)
    \/ \E p \in 1..NumCalls : PersistStep(p)

SpecConc == InitConc /\ [][NextConc]_vars

(***************************************************************************)
(* One caller of AvailabilityService, one call after the other, over the   *)
(* rows create_availability has stored.                                    *)
(***************************************************************************)
RECURSIVE Mutations(_)
\* The number of successful mutator calls the objects have seen (each adds 1
\* to its row's version, which starts at 1)
Mutations(hp) ==
    IF hp = <<>> THEN 0 ELSE (Head(hp).version - 1) + Mutations(Tail(hp))

SvcDates == 0..(NumDates - 1)
SvcCounts == {1, MaxSvcRooms}

InitSvc ==
    /\ now = 0
    /\ res = create(InitialRoomType, [check_in |-> 0, check_out |-> 1], InitialGuests,
                    BaseRate, [refund_percentage |-> 80, deadline_hours |-> 24])
    /\ resOut = NoCall
    /\ avail = IdleAvail
    /\ availOut = NoAvailCall
    /\ countLo = 1
    /\ heap = <<>>
    /\ storage = <<>>
    /\ procs = [p \in {1} |-> Idle]
    /\ reservations = <<>>
    /\ InitWaitIdle

NextSvc ==
    \/ \E d \in SvcDates :
          /\ procs[1].pc = "idle"
          /\ create_availability(InitialRoomType, d, MaxSvcRooms, 0)
    \/ \E op \in ServiceOps, start_date \in SvcDates, end_date \in 0..NumDates,
          count \in SvcCounts :
          /\ Mutations(heap) < MaxSvcMutations
          /\ Call(1, op, InitialRoomType, start_date, end_date, count)
    \/ MutateStep(1)
    \/ PersistStep(1)
    \/ Finish(1)

SpecSvc == InitSvc /\ [][NextSvc]_vars

(***************************************************************************)
(* The five range methods of AvailabilityService, check_availability       *)
(* included, called for both room types and for every range, empty and     *)
(* reversed ranges included.                                               *)
(***************************************************************************)
InitChk == InitSvc

NextChk ==
    \/ \E d \in SvcDates :
          /\ procs[1].pc = "idle"
          /\ create_availability(InitialRoomType, d, MaxSvcRooms, 0)
    \/ \E op \in ServiceOps, room_type_id \in RoomTypes, start_date \in SvcDates,
          end_date \in 0..NumDates, count \in SvcCounts :
          /\ Mutations(heap) < MaxChkMutations
          /\ Call(1, op, room_type_id, start_date, end_date, count)
    \/ \E room_type_id \in RoomTypes, start_date \in SvcDates, end_date \in 0..NumDates,
          count \in SvcCounts :
          service_check_availability(1, room_type_id, start_date, end_date, count)
    \/ MutateStep(1)
    \/ PersistStep(1)
    \/ Finish(1)

SpecChk == InitChk /\ [][NextChk]_vars

(***************************************************************************)
(* The range methods over a calendar in which some nights have no stored   *)
(* row (SpecNights).                                                       *)
(***************************************************************************)
NextNights ==
    \/ \E d \in SvcDates :
          /\ procs[1].pc = "idle"
          /\ create_availability(InitialRoomType, d, MaxSvcRooms, 0)
    \/ \E op \in ServiceOps, start_date \in SvcDates, end_date \in 0..NumDates,
          count \in SvcCounts :
          /\ Mutations(heap) < MaxNightMutations
          /\ RangeCall(1, op, InitialRoomType, start_date, end_date, count)
    \/ \E start_date \in SvcDates, end_date \in 0..NumDates, count \in SvcCounts :
          service_check_availability(1, InitialRoomType, start_date, end_date, count)
    \/ MutateStep(1)
    \/ PersistStep(1)
    \/ Finish(1)

SpecNights == InitSvc /\ [][NextNights]_vars

(***************************************************************************)
(* ReservationService and AvailabilityService behind one caller: the       *)
(* reservation repository maps ids (positions, in creation order) to the   *)
(* stored Reservation objects, which the service mutates in place.         *)
(***************************************************************************)
ReservationIds == 1..MaxReservations

upper_Identity(type) == type

\* str.upper() on the type strings a caller sends
upper(type) ==
    CASE type = "early_check_in" -> "EARLY_CHECK_IN"
      [] type = "Late_Check_Out" -> "LATE_CHECK_OUT"
      [] type = "spa" -> "SPA"
      [] OTHER -> type

RECURSIVE AddRequests(_, _)
\* create_reservation's loop over special_requests: RequestType[type.upper()]
\* raises KeyError for a name that is not a member and add_special_request may
\* raise ValueError; either way the request is skipped
AddRequests(r, reqs) ==
    IF reqs = <<>> THEN r
    ELSE LET name == upper(Head(reqs))
         IN  IF name \notin RequestType THEN AddRequests(r, Tail(reqs))
             ELSE AddRequests(add_special_request(r, name).r, Tail(reqs))

\* ReservationService.create_reservation; resOut records whether it returned
\* (ok) or raised, and the nights asked for
create_reservation(room_type_id, check_in_date, check_out_date, adults, children, special_requests, confirmation_code) ==
    LET date_range == [check_in |-> check_in_date, check_out |-> check_out_date]
        guest_count == [adults |-> adults, children |-> children]
        amount == nights(date_range) * BaseRate
        policy == [refund_percentage |-> 80, deadline_hours |-> 24]
        reservation == Reservation_create(room_type_id, date_range, guest_count, amount,
                                          policy, now, confirmation_code)
        accepted == /\ check_out_date > check_in_date
                    /\ MoneyValid(amount)
                    /\ reservation.ok
    IN  /\ reservations' =
              IF accepted
              THEN Append(reservations, AddRequests(reservation.r, special_requests))
              ELSE reservations
        /\ resOut' = [op |-> "create_reservation", arg |-> nights(date_range),
                      ok |-> accepted, ret |-> 0]
        /\ UNCHANGED <<now, res, availVars, repoVars, waitVars>>

\* find_by_id, the aggregate method, update: an unknown id returns None, a
\* ValueError of the aggregate is raised again by the service
ReservationCall(reservation_id, o) ==
    /\ reservations' = IF reservation_id \in 1..Len(reservations)
                       THEN [reservations EXCEPT ![reservation_id] = o.r]
                       ELSE reservations
    /\ UNCHANGED <<now, resVars, availVars, repoVars, waitVars>>

\* The stored reservation, or any reservation when the id is unknown (the
\* call returns before it is used)
Found(reservation_id) ==
    IF reservation_id \in 1..Len(reservations) THEN reservations[reservation_id]
    ELSE res

\* ReservationService.modify_reservation
modify_reservation(reservation_id, new_check_in, new_check_out, new_room_type_id) ==
    LET given == new_check_in # None /\ new_check_out # None
        new_date_range ==
            IF given THEN Some([check_in |-> new_check_in[1],
                                check_out |-> new_check_out[1]])
            ELSE None
    IN  /\ Found(reservation_id).version < MaxVersion
        /\ IF given /\ reservation_id \in 1..Len(reservations)
              /\ ~(new_check_out[1] > new_check_in[1])
           THEN UNCHANGED vars
           ELSE ReservationCall(reservation_id,
                                modify(Found(reservation_id), now, new_date_range,
                                       None, new_room_type_id))

\* ReservationService.confirm_reservation
confirm_reservation(reservation_id, payment_confirmed) ==
    ReservationCall(reservation_id, confirm(Found(reservation_id), payment_confirmed))

\* ReservationService.check_in_guest
check_in_guest(reservation_id) ==
    ReservationCall(reservation_id, check_in(Found(reservation_id), now))

\* ReservationService.check_out_guest
check_out_guest(reservation_id) ==
    ReservationCall(reservation_id, check_out(Found(reservation_id)))

\* ReservationService.cancel_reservation
cancel_reservation(reservation_id) ==
    ReservationCall(reservation_id, cancel(Found(reservation_id), now))

\* ReservationService.mark_no_show
service_mark_no_show(reservation_id) ==
    ReservationCall(reservation_id, mark_no_show(Found(reservation_id)))

InitSys == InitSvc

NextSys ==
    \/ \E d \in SvcDates :
          /\ procs[1].pc = "idle"
          /\ create_availability(InitialRoomType, d, 1, 0)
    \/ \E op \in {"reserve_rooms", "release_rooms"}, start_date \in SvcDates :
          /\ Mutations(heap) < MaxSvcMutations
          /\ Call(1, op, InitialRoomType, start_date, start_date + 1, 1)
    \/ MutateStep(1)
    \/ PersistStep(1)
    \/ Finish(1)
    \/ \E check_in_date \in SvcDates, check_out_date \in 0..NumDates,
          special_requests \in {<<>>, <<"EARLY_CHECK_IN">>, <<"INVALID_TYPE">>},
          code \in ConfirmationCodes :
          /\ Len(reservations) < MaxReservations
          /\ create_reservation(InitialRoomType, check_in_date, check_out_date,
                                1, 0, special_requests, code)
    \/ \E id \in ReservationIds, new_check_in \in Optional(SvcDates),
          new_check_out \in Optional(1..NumDates) :
          modify_reservation(id, new_check_in, new_check_out, None)
    \/ \E id \in ReservationIds, paid \in BOOLEAN : confirm_reservation(id, paid)
    \/ \E id \in ReservationIds : check_in_guest(id)
    \/ \E id \in ReservationIds : check_out_guest(id)
    \/ \E id \in ReservationIds : cancel_reservation(id)
    \/ \E id \in ReservationIds : service_mark_no_show(id)
    \/ Tick

SpecSys == InitSys /\ [][NextSys]_vars

(***************************************************************************)
(* ReservationService.create_reservation called again and again as the     *)
(* days pass: stays of 0, 1, 30 and 31 nights, with and without an adult.  *)
(***************************************************************************)
StayOffsets == {0, 1, MaxStayNights, MaxStayNights + 1}

CreateInputs ==
    [check_in : Days, stay : StayOffsets, adults : {0, 1},
     special_requests : {<<>>}, code : ConfirmationCodes]

CreateReservation(inp) ==
    /\ Len(reservations) < MaxCreated
    /\ create_reservation(InitialRoomType, inp.check_in, inp.check_in + inp.stay,
                          inp.adults, 0, inp.special_requests, inp.code)

InitCreate == InitSvc

NextCreate ==
    \/ \E inp \in CreateInputs : CreateReservation(inp)
    \/ Tick

SpecCreate == InitCreate /\ [][NextCreate]_vars

(***************************************************************************)
(* WaitlistService and InMemoryWaitlistRepository.  A waitlist_id is the   *)
(* entry's place in the repository's dict; find_by_id returns the stored   *)
(* object itself, so a method called on it changes the stored entry.       *)
(***************************************************************************)
WaitlistIds == 1..(Len(waitlist) + 1)
ReservationRefs == {1, 2}

\* InMemoryWaitlistRepository.find_by_id: is there an entry under the id
Waitlist_find_by_id(waitlist_id) == waitlist_id \in 1..Len(waitlist)

\* The stored entry, or any entry when the id is unknown (the call returns
\* before it is used)
Entry(waitlist_id) ==
    IF Waitlist_find_by_id(waitlist_id) THEN waitlist[waitlist_id]
    ELSE add_to_waitlist(InitialRoomType, MEDIUM, 0)

\* A WaitlistService method on one entry: find_by_id, None when there is no
\* entry, else the aggregate's method and repository.update.  ok = FALSE is
\* a raised ValueError, ret = None a returned None, ret = Some(id) the
\* returned entry
WaitlistCall(op, waitlist_id, arg, o) ==
    LET found == Waitlist_find_by_id(waitlist_id)
    IN  /\ waitlist' = IF found THEN [waitlist EXCEPT ![waitlist_id] = o.e] ELSE waitlist
        /\ entryOut' = [op |-> op, id |-> waitlist_id, arg |-> arg, ok |-> ~found \/ o.ok,
                        ret |-> IF found /\ o.ok THEN Some(waitlist_id) ELSE None]
        /\ UNCHANGED <<now, resVars, availVars, repoVars, reservations>>

\* WaitlistService.add_to_waitlist
service_add_to_waitlist(room_type_id, priority) ==
    /\ waitlist' = Append(waitlist, add_to_waitlist(room_type_id, priority, now))
    /\ entryOut' = [op |-> "add_to_waitlist", id |-> Len(waitlist) + 1, arg |-> priority,
                    ok |-> TRUE, ret |-> Some(Len(waitlist) + 1)]
    /\ UNCHANGED <<now, resVars, availVars, repoVars, reservations>>

\* WaitlistService.convert_to_reservation
service_convert_to_reservation(waitlist_id, reservation_id) ==
    WaitlistCall("service.convert_to_reservation", waitlist_id, reservation_id,
                 convert_to_reservation(Entry(waitlist_id), reservation_id))

\* WaitlistService.expire_entry
expire_entry(waitlist_id) ==
    WaitlistCall("expire_entry", waitlist_id, 0, expire(Entry(waitlist_id)))

\* WaitlistService.extend_expiry
service_extend_expiry(waitlist_id, additional_days) ==
    WaitlistCall("service.extend_expiry", waitlist_id, additional_days,
                 extend_expiry(Entry(waitlist_id), additional_days))

\* WaitlistService.upgrade_priority
service_upgrade_priority(waitlist_id, new_priority) ==
    WaitlistCall("service.upgrade_priority", waitlist_id, new_priority,
                 upgrade_priority(Entry(waitlist_id), new_priority))

\* WaitlistService.mark_notified
service_mark_notified(waitlist_id) ==
    WaitlistCall("service.mark_notified", waitlist_id, 0,
                 mark_notified(Entry(waitlist_id), now))

\* The ids of the stored entries, in dict (insertion) order
StoredIds == [i \in 1..Len(waitlist) |-> i]

\* InMemoryWaitlistRepository.find_active_by_room_type
find_active_by_room_type(room_type_id) ==
    LET Keep(i) == waitlist[i].room_type_id = room_type_id /\ waitlist[i].status = "ACTIVE"
    IN  SelectSeq(StoredIds, Keep)

\* InMemoryWaitlistRepository.find_all_active
find_all_active ==
    LET Keep(i) == waitlist[i].status = "ACTIVE"
    IN  SelectSeq(StoredIds, Keep)

\* A WaitlistService query: ret is the returned list, as ids
QueryCall(op, ret) ==
    /\ entryOut' = [op |-> op, id |-> 0, arg |-> 0, ok |-> TRUE, ret |-> ret]
    /\ UNCHANGED <<now, resVars, availVars, repoVars, reservations, waitlist>>

\* WaitlistService.get_entries_to_notify
get_entries_to_notify ==
    LET entries == find_all_active
        Keep(i) == should_notify_again(waitlist[i], now)
    IN  QueryCall("get_entries_to_notify", SelectSeq(entries, Keep))

\* The clock advances by half a day
WaitTick ==
    /\ now + HoursPerDay \div 2 <= MaxWaitDays * HoursPerDay
    /\ now' = now + HoursPerDay \div 2
    /\ UNCHANGED <<resVars, availVars, repoVars, reservations, waitVars>>

(***************************************************************************)
(* One WaitlistEntry, stored by add_to_waitlist and held by its caller,    *)
(* under any sequence of calls of its methods and of expire_entry, as the  *)
(* days pass.                                                              *)
(***************************************************************************)
\* A method called on the held entry
EntryCall(op, arg, o, ret) ==
    /\ waitlist' = [waitlist EXCEPT ![1] = o.e]
    /\ entryOut' = [op |-> op, id |-> 1, arg |-> arg, ok |-> o.ok, ret |-> ret]
    /\ UNCHANGED <<now, resVars, availVars, repoVars, reservations>>

EntConvert ==
    \E reservation_id \in ReservationRefs :
        EntryCall("convert_to_reservation", reservation_id,
                  convert_to_reservation(waitlist[1], reservation_id), None)

EntExpire == EntryCall("expire", 0, expire(waitlist[1]), None)

EntCancel == EntryCall("cancel", 0, WaitlistEntry_cancel(waitlist[1]), None)

EntExtendExpiry ==
    \E additional_days \in 1..MaxExtendDays :
        /\ DaysOf(waitlist[1].expires_at - waitlist[1].created_at) + additional_days
              <= WaitlistDays + MaxExtendDays
        /\ EntryCall("extend_expiry", additional_days,
                     extend_expiry(waitlist[1], additional_days), None)

EntUpgradePriority ==
    \E new_priority \in Priority :
        EntryCall("upgrade_priority", new_priority,
                  upgrade_priority(waitlist[1], new_priority), None)

EntMarkNotified == EntryCall("mark_notified", 0, mark_notified(waitlist[1], now), None)

\* Between the clock reading kept in now and the call's own utcnow() no time
\* or one unit of the clock has passed
EntScore ==
    \E elapsed \in {0, 1} :
        EntryCall("calculate_priority_score", elapsed, EntDone(waitlist[1]),
                  Some(calculate_priority_score(waitlist[1], now + elapsed)))

EntExpireEntry == \E waitlist_id \in WaitlistIds : expire_entry(waitlist_id)

InitWait ==
    /\ now = 0
    /\ res = create(InitialRoomType, [check_in |-> 0, check_out |-> 1], InitialGuests,
                    BaseRate, [refund_percentage |-> 80, deadline_hours |-> 24])
    /\ resOut = NoCall
    /\ avail = IdleAvail
    /\ availOut = NoAvailCall
    /\ countLo = 1
    /\ heap = <<>>
    /\ storage = <<>>
    /\ procs = <<>>
    /\ reservations = <<>>
    /\ \E priority \in Priority :
          /\ waitlist = <<add_to_waitlist(InitialRoomType, priority, now)>>
          /\ entryOut = [op |-> "add_to_waitlist", id |-> 1, arg |-> priority,
                         ok |-> TRUE, ret |-> Some(1)]

NextWait ==
    \/ EntConvert
    \/ EntExpire
    \/ EntCancel
    \/ EntExtendExpiry
    \/ EntUpgradePriority
    \/ EntMarkNotified
    \/ EntScore
    \/ EntExpireEntry
    \/ get_entries_to_notify
    \/ WaitTick

SpecWait == InitWait /\ [][NextWait]_vars

(***************************************************************************)
(* One WaitlistEntry as the days pass beyond its expires_at, converted     *)
(* and expired through the aggregate and through WaitlistService           *)
(* (SpecExpiry).                                                           *)
(***************************************************************************)
NextExpiry ==
    \/ EntConvert
    \/ \E reservation_id \in ReservationRefs :
          service_convert_to_reservation(1, reservation_id)
    \/ EntExpire
    \/ EntryCall("is_expired", 0, EntDone(waitlist[1]), <<is_expired(waitlist[1], now)>>)
    \/ /\ now + HoursPerDay <= MaxExpiryDays * HoursPerDay
       /\ now' = now + HoursPerDay
       /\ UNCHANGED <<resVars, availVars, repoVars, reservations, waitVars>>

SpecExpiry == InitWait /\ [][NextExpiry]_vars

(***************************************************************************)
(* WaitlistService over several stored entries (SpecSort): entries of two  *)
(* room types and two priorities are added at different times and expired, *)
(* and the list queries are called.                                        *)
(***************************************************************************)
\* sorted(entries, key=score, reverse=True) with ties kept the other way round
RECURSIVE sorted_reverse_TiesReversed(_, _)
sorted_reverse_TiesReversed(entries, t) ==
    IF entries = <<>> THEN <<>>
    ELSE LET x == entries[Len(entries)]
             rest == sorted_reverse_TiesReversed(SubSeq(entries, 1, Len(entries) - 1), t)
             key(i) == calculate_priority_score(waitlist[i], t)
             Before(i) == key(i) > key(x)
             After(i) == key(i) <= key(x)
         IN  SelectSeq(rest, Before) \o <<x>> \o SelectSeq(rest, After)

\* sorted(entries, key=lambda e: e.calculate_priority_score(), reverse=True):
\* a stable sort, so entries of equal score keep their order
RECURSIVE sorted_reverse(_, _)
sorted_reverse(entries, t) ==
    IF entries = <<>> THEN <<>>
    ELSE LET x == entries[Len(entries)]
             rest == sorted_reverse(SubSeq(entries, 1, Len(entries) - 1), t)
             key(i) == calculate_priority_score(waitlist[i], t)
             Before(i) == key(i) >= key(x)
             After(i) == key(i) < key(x)
         IN  SelectSeq(rest, Before) \o <<x>> \o SelectSeq(rest, After)

\* WaitlistService.get_room_waitlist
get_room_waitlist(room_type_id) ==
    LET entries == find_active_by_room_type(room_type_id)
    IN  QueryCall("get_room_waitlist", sorted_reverse(entries, now))

\* WaitlistService.get_active_waitlist
get_active_waitlist == QueryCall("get_active_waitlist", find_all_active)

\* The requests made of add_to_waitlist: <<room_type_id, priority>>
WaitAdds == {<<"DELUXE", LOW>>, <<"DELUXE", URGENT>>, <<"SUITE", LOW>>}

\* The clock advances by half a day
SortTick ==
    /\ now + HoursPerDay \div 2 <= MaxSortDays * HoursPerDay
    /\ now' = now + HoursPerDay \div 2
    /\ UNCHANGED <<resVars, availVars, repoVars, reservations, waitVars>>

InitSort ==
    /\ now = 0
    /\ res = create(InitialRoomType, [check_in |-> 0, check_out |-> 1], InitialGuests,
                    BaseRate, [refund_percentage |-> 80, deadline_hours |-> 24])
    /\ resOut = NoCall
    /\ avail = IdleAvail
    /\ availOut = NoAvailCall
    /\ countLo = 1
    /\ heap = <<>>
    /\ storage = <<>>
    /\ procs = <<>>
    /\ reservations = <<>>
    /\ InitWaitIdle

NextSort ==
    \/ \E a \in WaitAdds :
          /\ Len(waitlist) < MaxEntries
          /\ service_add_to_waitlist(a[1], a[2])
    \/ \E waitlist_id \in WaitlistIds : expire_entry(waitlist_id)
    \/ \E room_type_id \in RoomTypes : get_room_waitlist(room_type_id)
    \/ get_active_waitlist
    \/ SortTick

SpecSort == InitSort /\ [][NextSort]_vars

(***************************************************************************)
(* The id-taking methods of ReservationService and WaitlistService with    *)
(* their outcome recorded (SpecErr).  The two services share nothing, so   *)
(* a run starts with one stored reservation or with one stored waitlist    *)
(* entry; ids range over the stored id and one that is not stored.         *)
(***************************************************************************)
ReservationCallOut_Raises(op, reservation_id, o, ret) ==
    LET found == reservation_id \in 1..Len(reservations)
    IN  /\ reservations' = IF found THEN [reservations EXCEPT ![reservation_id] = o.r]
                           ELSE reservations
        /\ resOut' = [op |-> op, arg |-> reservation_id, ok |-> found /\ o.ok,
                      ret |-> IF found /\ o.ok THEN ret ELSE 0]
        /\ entryOut' = NoEntryCall
        /\ UNCHANGED <<now, res, availVars, repoVars, waitlist>>

\* find_by_id, the aggregate method, update, with the outcome in resOut: ok =
\* FALSE is a raised ValueError, ret = 0 is None.  find_by_id returns the
\* stored object, so what the aggregate method did to it is stored whether or
\* not update is reached.  entryOut is cleared: the last call made is no
\* longer a WaitlistService call.
ReservationCallOut(op, reservation_id, o, ret) ==
    LET found == reservation_id \in 1..Len(reservations)
    IN  /\ reservations' = IF found THEN [reservations EXCEPT ![reservation_id] = o.r]
                           ELSE reservations
        /\ resOut' = [op |-> op, arg |-> reservation_id, ok |-> ~found \/ o.ok,
                      ret |-> IF found /\ o.ok THEN ret ELSE 0]
        /\ entryOut' = NoEntryCall
        /\ UNCHANGED <<now, res, availVars, repoVars, waitlist>>

\* GuestCount(adults=..., children=...): Field(ge=1, le=10), Field(ge=0, le=10)
GuestCountValid(adults, children) == adults \in 1..10 /\ children \in 0..10

\* modify_reservation's value objects: ok = FALSE when DateRange(...) or
\* GuestCount(...) raises
BuildArgs(new_check_in, new_check_out, new_adults, new_children) ==
    LET dates == new_check_in # None /\ new_check_out # None
        guests == new_adults # None /\ new_children # None
    IN  [ok |-> /\ dates => new_check_out[1] > new_check_in[1]
                /\ guests => GuestCountValid(new_adults[1], new_children[1]),
         new_date_range |->
             IF dates THEN Some([check_in |-> new_check_in[1],
                                 check_out |-> new_check_out[1]])
             ELSE None,
         new_guest_count |->
             IF guests THEN Some([adults |-> new_adults[1], children |-> new_children[1]])
             ELSE None]

\* ReservationService.modify_reservation
SvcModify(reservation_id, new_check_in, new_check_out, new_adults, new_children) ==
    LET r == Found(reservation_id)
        args == BuildArgs(new_check_in, new_check_out, new_adults, new_children)
    IN  /\ r.version < MaxVersion
        /\ IF reservation_id \in 1..Len(reservations) /\ ~args.ok
           THEN ReservationCallOut("modify_reservation", reservation_id, Raised(r), 0)
           ELSE ReservationCallOut("modify_reservation", reservation_id,
                                   modify(r, now, args.new_date_range,
                                          args.new_guest_count, None),
                                   reservation_id)

\* ReservationService.confirm_reservation
SvcConfirm(reservation_id, payment_confirmed) ==
    ReservationCallOut("confirm_reservation", reservation_id,
                       confirm(Found(reservation_id), payment_confirmed), reservation_id)

\* ReservationService.check_in_guest
SvcCheckIn(reservation_id) ==
    ReservationCallOut("check_in_guest", reservation_id,
                       check_in(Found(reservation_id), now), reservation_id)

\* ReservationService.check_out_guest
SvcCheckOut(reservation_id) ==
    LET o == check_out(Found(reservation_id))
    IN  ReservationCallOut("check_out_guest", reservation_id, o, o.ret)

\* ReservationService.cancel_reservation
SvcCancel(reservation_id) ==
    LET o == cancel(Found(reservation_id), now)
    IN  ReservationCallOut("cancel_reservation", reservation_id, o, o.ret)

\* ReservationService.mark_no_show
SvcMarkNoShow(reservation_id) ==
    ReservationCallOut("mark_no_show", reservation_id,
                       mark_no_show(Found(reservation_id)), reservation_id)

\* ReservationService.add_special_request
SvcAddSpecialRequest(reservation_id, request_type) ==
    /\ Found(reservation_id).version < MaxVersion
    /\ Len(Found(reservation_id).special_requests) < MaxRequests
    /\ ReservationCallOut("add_special_request", reservation_id,
                          add_special_request(Found(reservation_id), request_type),
                          reservation_id)

\* The ids a caller passes: the stored ones and one that is not stored
ErrReservationIds == 1..(Len(reservations) + 1)

\* The new dates a caller asks for: <<new_check_in, new_check_out>>
ErrDates == {<<None, None>>, <<Some(0), None>>, <<Some(0), Some(2)>>, <<Some(2), Some(2)>>}

\* The new guests a caller asks for: <<new_adults, new_children>>
ErrGuests == {<<None, None>>, <<Some(0), Some(0)>>, <<Some(2), Some(0)>>}

\* The clock advances by a day
ErrTick ==
    /\ now + HoursPerDay <= Midnight(MaxDay)
    /\ now' = now + HoursPerDay
    /\ UNCHANGED <<resVars, availVars, repoVars, reservations, waitVars>>

InitErr ==
    /\ now = 0
    /\ res = create(InitialRoomType, [check_in |-> 0, check_out |-> 1], InitialGuests,
                    BaseRate, [refund_percentage |-> 80, deadline_hours |-> 24])
    /\ resOut = NoCall
    /\ avail = IdleAvail
    /\ availOut = NoAvailCall
    /\ countLo = 1
    /\ heap = <<>>
    /\ storage = <<>>
    /\ procs = <<>>
    /\ entryOut = NoEntryCall
    /\ \/ /\ reservations =
                <<create(InitialRoomType, [check_in |-> 2, check_out |-> 3],
                         InitialGuests, BaseRate,
                         [refund_percentage |-> 80, deadline_hours |-> 24])>>
          /\ waitlist = <<>>
       \/ /\ reservations = <<>>
          /\ waitlist = <<add_to_waitlist(InitialRoomType, MEDIUM, now)>>

NextErr ==
    \/ \E id \in ErrReservationIds, dates \in ErrDates, guests \in ErrGuests :
          SvcModify(id, dates[1], dates[2], guests[1], guests[2])
    \/ \E id \in ErrReservationIds, paid \in BOOLEAN : SvcConfirm(id, paid)
    \/ \E id \in ErrReservationIds : SvcCheckIn(id)
    \/ \E id \in ErrReservationIds : SvcCheckOut(id)
    \/ \E id \in ErrReservationIds : SvcCancel(id)
    \/ \E id \in ErrReservationIds : SvcMarkNoShow(id)
    \/ \E id \in ErrReservationIds, rq \in RequestArgs :
          SvcAddSpecialRequest(id, rq)
    \/ \E id \in WaitlistIds : service_convert_to_reservation(id, 1)
    \/ \E id \in WaitlistIds : expire_entry(id)
    \/ \E id \in WaitlistIds :
          /\ DaysOf(Entry(id).expires_at - Entry(id).created_at) + 1
                 <= WaitlistDays + MaxExtendDays
          /\ service_extend_expiry(id, 1)
    \/ \E id \in WaitlistIds, new_priority \in {LOW, URGENT} :
          service_upgrade_priority(id, new_priority)
    \/ \E id \in WaitlistIds : service_mark_notified(id)
    \/ ErrTick

SpecErr == InitErr /\ [][NextErr]_vars

(***************************************************************************)
(* Concurrent ReservationService calls on one stored reservation           *)
(* (SpecRace).  heap holds the Reservation objects and reservations[id]    *)
(* is the reference the repository's dict keeps.  A call is a coroutine:   *)
(* find_by_id (await), the aggregate's method (synchronous), update        *)
(* (await); other coroutines may run at each await.                        *)
(***************************************************************************)
RaceIdle == [pc |-> "idle", op |-> "none", paid |-> FALSE, ref |-> 0, ok |-> FALSE]

RaceOps == {"confirm_reservation", "check_in_guest", "check_out_guest",
            "cancel_reservation", "mark_no_show"}

Reservation_find_by_id_Copy(hp, dict, reservation_id) ==
    [heap |-> Append(hp, hp[dict[reservation_id]]), ref |-> Len(hp) + 1]

\* InMemoryReservationRepository.find_by_id: [heap, ref], the heap as the
\* call leaves it and the object returned, which is the stored one
Reservation_find_by_id(hp, dict, reservation_id) ==
    [heap |-> hp, ref |-> dict[reservation_id]]

\* The aggregate method a service method calls
RaceMethod(c, r, t) ==
    CASE c.op = "confirm_reservation" -> confirm(r, c.paid)
      [] c.op = "check_in_guest" -> check_in(r, t)
      [] c.op = "check_out_guest" -> check_out(r)
      [] c.op = "cancel_reservation" -> cancel(r, t)
      [] c.op = "mark_no_show" -> mark_no_show(r)

\* reservation = await self.repository.find_by_id(reservation_id)
RaceFind(p, op, paid) ==
    LET f == Reservation_find_by_id(heap, reservations, 1)
    IN  /\ procs[p].pc = "idle"
        /\ heap' = f.heap
        /\ procs' = [procs EXCEPT ![p] =
                        [RaceIdle EXCEPT !.pc = "act", !.op = op, !.paid = paid,
                                         !.ref = f.ref]]
        /\ UNCHANGED <<now, resVars, availVars, storage, reservations, waitVars>>

\* reservation.<method>(...); a ValueError ends the call
RaceAct(p) ==
    LET c == procs[p]
        o == RaceMethod(c, heap[c.ref], now)
    IN  /\ c.pc = "act"
        /\ heap' = [heap EXCEPT ![c.ref] = o.r]
        /\ procs' = [procs EXCEPT ![p] =
                        IF o.ok THEN [c EXCEPT !.pc = "update", !.ok = TRUE]
                        ELSE [c EXCEPT !.pc = "returned"]]
        /\ UNCHANGED <<now, resVars, availVars, storage, reservations, waitVars>>

\* return await self.repository.update(reservation)
RaceUpdate(p) ==
    LET c == procs[p]
    IN  /\ c.pc = "update"
        /\ reservations' = [reservations EXCEPT ![1] = c.ref]
        /\ procs' = [procs EXCEPT ![p] = [c EXCEPT !.pc = "returned"]]
        /\ UNCHANGED <<now, resVars, availVars, heap, storage, waitVars>>

InitRace ==
    /\ now = 0
    /\ res = create(InitialRoomType, [check_in |-> 0, check_out |-> 1], InitialGuests,
                    BaseRate, [refund_percentage |-> 80, deadline_hours |-> 24])
    /\ resOut = NoCall
    /\ avail = IdleAvail
    /\ availOut = NoAvailCall
    /\ countLo = 1
    /\ \E check_in_date \in {0, 1} :
          heap = <<create(InitialRoomType,
                          [check_in |-> check_in_date, check_out |-> check_in_date + 1],
                          InitialGuests, BaseRate,
                          [refund_percentage |-> 80, deadline_hours |-> 24])>>
    /\ storage = <<>>
    /\ procs = [p \in 1..NumRaceCalls |-> RaceIdle]
    /\ reservations = <<1>>
    /\ InitWaitIdle

NextRace ==
    \/ \E p \in 1..NumRaceCalls, op \in RaceOps, paid \in BOOLEAN :
          \* the coroutines are numbered in the order in which they are called
          /\ \A q \in 1..(p - 1) : procs[q].pc # "idle"
          /\ op # "confirm_reservation" => paid
          /\ RaceFind(p, op, paid)
    \/ \E p \in 1..NumRaceCalls : RaceAct(p)
    \/ \E p \in 1..NumRaceCalls : RaceUpdate(p)
    \/ ErrTick

SpecRace == InitRace /\ [][NextRace]_vars

(***************************************************************************)
(* A reservation made by create_reservation and then taken through every   *)
(* ReservationService method, modify_reservation with new dates included,  *)
(* as the days pass (SpecAmount).                                          *)
(***************************************************************************)
\* The new dates a caller asks for: <<new_check_in, new_check_out>>
AmountDates ==
    {<<None, None>>, <<Some(1), None>>, <<Some(1), Some(2)>>, <<Some(1), Some(3)>>,
     <<Some(2), Some(3)>>, <<Some(2), Some(2)>>}

NextAmount ==
    \/ \E check_in_date \in Days, stay \in 0..MaxNights :
          /\ reservations = <<>>
          /\ create_reservation(InitialRoomType, check_in_date, check_in_date + stay,
                                1, 0, <<>>, "AAAAAAAA")
    \/ \E id \in ErrReservationIds, dates \in AmountDates, guests \in ErrGuests :
          SvcModify(id, dates[1], dates[2], guests[1], guests[2])
    \/ \E id \in ErrReservationIds, paid \in BOOLEAN : SvcConfirm(id, paid)
    \/ \E id \in ErrReservationIds : SvcCheckIn(id)
    \/ \E id \in ErrReservationIds : SvcCheckOut(id)
    \/ \E id \in ErrReservationIds : SvcCancel(id)
    \/ \E id \in ErrReservationIds : SvcMarkNoShow(id)
    \/ \E id \in ErrReservationIds, rq \in RequestArgs : SvcAddSpecialRequest(id, rq)
    \/ ErrTick

SpecAmount == InitSvc /\ [][NextAmount]_vars

(***************************************************************************)
(* ReservationService.create_reservation with lists of special requests of *)
(* known and unknown types, on an empty repository (SpecReq).              *)
(***************************************************************************)
\* The "type" strings of the requests a caller sends
RequestInputs == {"early_check_in", "Late_Check_Out", "LATE_CHECK_OUT", "spa", ""}

\* The lists of requests a caller sends, by their types
RequestLists == UNION {[1..n -> RequestInputs] : n \in 0..MaxRequestList}

ReqCreate(room_type_id, check_in_date, special_requests) ==
    /\ reservations = <<>>
    /\ create_reservation(room_type_id, check_in_date, check_in_date + 1, 1, 0,
                          special_requests, "AAAAAAAA")

InitReq == InitSvc

NextReq ==
    \/ \E room_type_id \in RoomTypes, check_in_date \in SvcDates,
          special_requests \in RequestLists :
          ReqCreate(room_type_id, check_in_date, special_requests)
    \/ Tick

SpecReq == InitReq /\ [][NextReq]_vars

(***************************************************************************)
(* The repositories called directly (SpecRepo).  InMemoryReservation-      *)
(* Repository and InMemoryWaitlistRepository are the same code over a dict *)
(* keyed by id: the dict is a sequence of [key, val] in insertion order,   *)
(* val standing for the object saved.  InMemoryAvailabilityRepository is   *)
(* called with the rows of a fixed pool, two of which have the same key.   *)
(***************************************************************************)
\* The position of an id in a dict, 0 when it is absent
IdPosition(d, key) ==
    IF \E i \in 1..Len(d) : d[i].key = key
    THEN CHOOSE i \in 1..Len(d) : d[i].key = key
    ELSE 0

\* save: self._storage[id] = object
repo_save(d, key, val) ==
    IF IdPosition(d, key) # 0 THEN [d EXCEPT ![IdPosition(d, key)].val = val]
    ELSE Append(d, [key |-> key, val |-> val])

\* find_by_id: self._storage.get(id); 0 is None
repo_find_by_id(d, key) ==
    IF IdPosition(d, key) # 0 THEN d[IdPosition(d, key)].val ELSE 0

repo_update_Upsert(d, key, val) == [ok |-> TRUE, d |-> repo_save(d, key, val)]

\* update: ok = FALSE is the raised ValueError("... not found")
repo_update(d, key, val) ==
    IF IdPosition(d, key) # 0
    THEN [ok |-> TRUE, d |-> [d EXCEPT ![IdPosition(d, key)].val = val]]
    ELSE [ok |-> FALSE, d |-> d]

\* delete: [ret, d], ret the bool returned
repo_delete(d, key) ==
    IF IdPosition(d, key) # 0
    THEN [ret |-> TRUE, d |-> SelectSeq(d, LAMBDA e : e.key # key)]
    ELSE [ret |-> FALSE, d |-> d]

RepoIds == {1, 2}
RepoObjects == {1, 2}
IdRepos == {"Reservation", "Waitlist"}

\* The dict of an id-keyed repository
DictOf(repo) == IF repo = "Reservation" THEN reservations ELSE waitlist

\* A call of an id-keyed repository: the dict after it, and the outcome
DictCall(repo, op, key, d, ok, ret) ==
    /\ reservations' = IF repo = "Reservation" THEN d ELSE reservations
    /\ waitlist' = IF repo = "Waitlist" THEN d ELSE waitlist
    /\ resOut' = [op |-> op, repo |-> repo, arg |-> key, ok |-> ok, ret |-> ret]
    /\ UNCHANGED <<now, res, availVars, repoVars, entryOut>>

DictSave(repo, key, val) ==
    DictCall(repo, "save", key, repo_save(DictOf(repo), key, val), TRUE, val)

DictUpdate(repo, key, val) ==
    LET o == repo_update(DictOf(repo), key, val)
    IN  DictCall(repo, "update", key, o.d, o.ok, IF o.ok THEN val ELSE 0)

DictDelete(repo, key) ==
    LET o == repo_delete(DictOf(repo), key)
    IN  DictCall(repo, "delete", key, o.d, TRUE, IF o.ret THEN 1 ELSE 0)

\* The Availability rows a caller holds: two for date 0, one for date 1
RowPool ==
    <<Availability(InitialRoomType, 0, 1, 0), Availability(InitialRoomType, 0, 2, 0),
      Availability(InitialRoomType, 1, 1, 0)>>

\* A call of InMemoryAvailabilityRepository with a row of the pool
RowCall(op, ref, st, ok) ==
    /\ storage' = st
    /\ resOut' = [op |-> op, repo |-> "Availability", arg |-> ref, ok |-> ok,
                  ret |-> IF ok THEN ref ELSE 0]
    /\ UNCHANGED <<now, res, availVars, heap, procs, reservations, waitVars>>

RowSave(ref) == RowCall("save", ref, save(storage, heap, ref), TRUE)

RowUpdate(ref) ==
    RowCall("update", ref, update(storage, heap, ref).st, update(storage, heap, ref).ok)

InitRepo ==
    /\ now = 0
    /\ res = create(InitialRoomType, [check_in |-> 0, check_out |-> 1], InitialGuests,
                    BaseRate, [refund_percentage |-> 80, deadline_hours |-> 24])
    /\ resOut = [op |-> "none", repo |-> "none", arg |-> 0, ok |-> TRUE, ret |-> 0]
    /\ avail = IdleAvail
    /\ availOut = NoAvailCall
    /\ countLo = 1
    /\ heap = RowPool
    /\ storage = <<>>
    /\ procs = <<>>
    /\ reservations = <<>>
    /\ InitWaitIdle

NextRepo ==
    \/ \E repo \in IdRepos, key \in RepoIds, val \in RepoObjects : DictSave(repo, key, val)
    \/ \E repo \in IdRepos, key \in RepoIds, val \in RepoObjects : DictUpdate(repo, key, val)
    \/ \E repo \in IdRepos, key \in RepoIds : DictDelete(repo, key)
    \/ \E ref \in 1..Len(heap) : RowSave(ref)
    \/ \E ref \in 1..Len(heap) : RowUpdate(ref)

SpecRepo == InitRepo /\ [][NextRepo]_vars

(***************************************************************************)
(* Claims about the Reservation aggregate (SpecRes).                       *)
(***************************************************************************)
TerminalStatus == {"CHECKED_OUT", "CANCELLED", "NO_SHOW"}

\* C1: the status of a Reservation changes only in a successful call, along
\* PENDING -> CONFIRMED (confirm), PENDING/CONFIRMED -> CHECKED_IN (check_in),
\* CHECKED_IN -> CHECKED_OUT (check_out), PENDING/CONFIRMED -> CANCELLED
\* (cancel), PENDING/CONFIRMED -> NO_SHOW (mark_no_show); so CHECKED_OUT,
\* CANCELLED and NO_SHOW are never left and CHECKED_OUT follows CHECKED_IN.
C1_StatusTransitions ==
    [][res'.status # res.status =>
        /\ resOut'.ok
        /\ \/ /\ ResConfirm
              /\ res.status = "PENDING" /\ res'.status = "CONFIRMED"
           \/ /\ ResCheckIn
              /\ res.status \in {"PENDING", "CONFIRMED"} /\ res'.status = "CHECKED_IN"
           \/ /\ ResCheckOut
              /\ res.status = "CHECKED_IN" /\ res'.status = "CHECKED_OUT"
           \/ /\ ResCancel
              /\ res.status \in {"PENDING", "CONFIRMED"} /\ res'.status = "CANCELLED"
           \/ /\ ResMarkNoShow
              /\ res.status \in {"PENDING", "CONFIRMED"} /\ res'.status = "NO_SHOW"]_vars

\* C1 witness: a reservation checked out by check_out, after a failed call
\* and a successful one brought it there
C1_Witness ==
    /\ res.status = "CHECKED_OUT"
    /\ resOut.op = "check_out" /\ resOut.ok
    /\ res.version >= 3

\* C8 (as claimed): once the status is CHECKED_OUT, CANCELLED or NO_SHOW no
\* call changes status, version, special_requests, date_range, room_type_id
\* or total_amount.
C8_TerminalFrozen ==
    [][res.status \in TerminalStatus =>
        /\ res'.status = res.status
        /\ res'.version = res.version
        /\ res'.special_requests = res.special_requests
        /\ res'.date_range = res.date_range
        /\ res'.room_type_id = res.room_type_id
        /\ res'.total_amount = res.total_amount]_vars

\* C9 (as claimed): cancel on a PENDING or CONFIRMED reservation succeeds, sets
\* the status to CANCELLED, increments version and returns the refund of
\* calculate_refund(today); it fails only outside PENDING and CONFIRMED.
C9_CancelSucceeds ==
    [][ResCancel =>
        IF res.status \in {"PENDING", "CONFIRMED"}
        THEN /\ resOut'.ok
             /\ res'.status = "CANCELLED"
             /\ res'.version = res.version + 1
             /\ resOut'.ret = calculate_refund(res, Today(now)).amount
        ELSE ~resOut'.ok /\ res' = res]_vars

\* The refund the policy states for a cancellation on day d
PolicyRefund(r, d) ==
    IF HoursPerDay * (r.date_range.check_in - d) >= r.cancellation_policy.deadline_hours
    THEN r.total_amount.amount
    ELSE (r.total_amount.amount * r.cancellation_policy.refund_percentage) \div 100

\* C10 (as claimed): calculate_refund(as_of_date) returns the full total_amount
\* when the hours from as_of_date midnight to check-in midnight are >=
\* deadline_hours, and total_amount * refund_percentage / 100 otherwise.
C10_RefundReturned ==
    resOut.op = "calculate_refund" =>
        /\ resOut.ok
        /\ resOut.ret = PolicyRefund(res, resOut.arg)

\* The seven mutators
Mutators ==
    {"modify", "add_special_request", "confirm", "check_in", "check_out", "cancel",
     "mark_no_show"}

\* A step is a call of op: every step but a tick of the clock is a call, and
\* resOut records the method called and whether it returned
CallOf(op) == now' = now /\ resOut'.op = op

\* C11: the factory creates a Reservation with version 1; every successful
\* modify, add_special_request, confirm, check_in, check_out, cancel and
\* mark_no_show adds exactly 1 to version and every failing call (and every
\* other step) leaves it unchanged, so version is 1 plus the number of
\* successful mutations and never decreases.
C11_VersionCounts ==
    /\ res.version = 1
    /\ [][IF (\E op \in Mutators : CallOf(op)) /\ resOut'.ok
          THEN res'.version = res.version + 1
          ELSE res'.version = res.version]_vars

\* C11 witness: a call that failed after two successful mutations; the
\* version is 3
C11_Witness ==
    /\ res.version = 3
    /\ resOut.op \in {"confirm", "check_in", "check_out", "cancel", "mark_no_show",
                      "modify", "add_special_request"}
    /\ ~resOut.ok

\* C12: check_in succeeds exactly when the status is PENDING or CONFIRMED and
\* today >= date_range.check_in, and a rejected check_in leaves status and
\* version unchanged; so a reservation in CHECKED_IN or CHECKED_OUT never has
\* its check-in date after today.
C12_CheckIn ==
    /\ [](res.status \in {"CHECKED_IN", "CHECKED_OUT"} =>
            HoursPerDay * res.date_range.check_in <= now)
    /\ [][CallOf("check_in") =>
            IF /\ res.status \in {"PENDING", "CONFIRMED"}
               /\ HoursPerDay * res.date_range.check_in <= now
            THEN resOut'.ok /\ res'.status = "CHECKED_IN"
            ELSE /\ ~resOut'.ok
                 /\ res'.status = res.status
                 /\ res'.version = res.version]_vars

\* C12 witness: a check_in refused because the check-in date is still ahead
C12_Witness ==
    /\ resOut.op = "check_in" /\ ~resOut.ok
    /\ res.status \in {"PENDING", "CONFIRMED"}
    /\ HoursPerDay * res.date_range.check_in > now

\* C13: confirm(payment_confirmed) sets the status to CONFIRMED (and adds 1 to
\* version) exactly when the status is PENDING and payment_confirmed is true;
\* otherwise it raises and leaves status and version unchanged, so a confirm
\* on a CONFIRMED reservation always fails.
C13_Confirm ==
    [][CallOf("confirm") =>
       /\ \A payment_confirmed \in BOOLEAN :
            ResCall("confirm", confirm(res, payment_confirmed)) =>
                IF res.status = "PENDING" /\ payment_confirmed
                THEN /\ resOut'.ok
                     /\ res'.status = "CONFIRMED"
                     /\ res'.version = res.version + 1
                ELSE /\ ~resOut'.ok
                     /\ res'.status = res.status
                     /\ res'.version = res.version
       /\ res.status = "CONFIRMED" => ~resOut'.ok /\ res' = res]_vars

\* C13 witness: a second confirm, on the CONFIRMED reservation, has failed
C13_Witness ==
    /\ resOut.op = "confirm" /\ ~resOut.ok
    /\ res.status = "CONFIRMED"
    /\ res.version = 2

(***************************************************************************)
(* Claims about Reservation.modify (SpecMod).                              *)
(***************************************************************************)
\* C14: modify succeeds only when the status is PENDING or CONFIRMED and at
\* least 24 hours remain until check-in midnight; otherwise, and when a new
\* date range has check_in < today or not 1 <= nights <= 30, it raises and
\* leaves date_range, guest_count, room_type_id, total_amount and version
\* unchanged.
C14_ModifyGuard ==
    \A args \in ModArgs :
        LET o == modify(res, now, args[1], args[2], args[3])
        IN  IF /\ res.status \in {"PENDING", "CONFIRMED"}
               /\ 24 * res.date_range.check_in - now >= 24
               /\ \/ args[1] = None
                  \/ /\ args[1][1].check_in >= now \div 24
                     /\ args[1][1].check_out - args[1][1].check_in >= 1
                     /\ args[1][1].check_out - args[1][1].check_in <= 30
            THEN o.ok
            ELSE /\ ~o.ok
                 /\ o.r.date_range = res.date_range
                 /\ o.r.guest_count = res.guest_count
                 /\ o.r.room_type_id = res.room_type_id
                 /\ o.r.total_amount = res.total_amount
                 /\ o.r.version = res.version

\* C14 witness: a modify refused on a PENDING reservation whose check-in
\* midnight is less than 24 hours ahead
C14_Witness ==
    /\ resOut.op = "modify" /\ ~resOut.ok
    /\ res.status = "PENDING"
    /\ 24 * res.date_range.check_in - now < 24
    /\ 24 * res.date_range.check_in - now > 0

\* C15: after every successful modify, also one that changes only the room
\* type or only the guest count, total_amount is nights(date_range) x
\* 1,000,000 in the currency the reservation had, whatever the amount was.
C15_Recalculated ==
    [][(CallOf("modify") /\ resOut'.ok) =>
        res'.total_amount =
            [amount |-> (res'.date_range.check_out - res'.date_range.check_in) * 1000000,
             currency |-> res.total_amount.currency]]_vars

\* C15 witness: the first successful modify of a USD reservation changed the
\* room type and neither the guest count nor (a 30-night stay) the amount's
\* currency
C15_Witness ==
    /\ resOut.op = "modify" /\ resOut.ok
    /\ res.version = 2
    /\ res.room_type_id = "SUITE" /\ res.guest_count = InitialGuests
    /\ res.total_amount = [amount |-> 30 * 1000000, currency |-> "USD"]

(***************************************************************************)
(* Claims about creating reservations (SpecCreate).                        *)
(***************************************************************************)
\* C16: Reservation.create raises for a date range with check_in < today,
\* with more than 30 nights or with fewer than 1; otherwise it returns a
\* reservation with status PENDING, version 1 and no special requests.  When
\* create_reservation fails validation, the reservation repository is left
\* as it was.
C16_CreateValidates ==
    /\ [](\A inp \in CreateInputs :
            LET dr == [check_in |-> inp.check_in, check_out |-> inp.check_in + inp.stay]
                gc == [adults |-> inp.adults, children |-> 0]
                o == Reservation_create(InitialRoomType, dr, gc, inp.stay * 1000000,
                                        [refund_percentage |-> 80, deadline_hours |-> 24],
                                        now, inp.code)
                rejected == \/ inp.check_in < now \div 24
                            \/ inp.stay > 30
                            \/ inp.stay < 1
            IN  /\ rejected => ~o.ok
                /\ (~rejected /\ inp.adults >= 1) =>
                      /\ o.ok
                      /\ o.r.status = "PENDING"
                      /\ o.r.version = 1
                      /\ o.r.special_requests = <<>>)
    /\ [][CallOf("create_reservation") =>
            /\ (resOut'.arg < 1 \/ resOut'.arg > 30) => ~resOut'.ok
            /\ IF resOut'.ok
               THEN /\ Len(reservations') = Len(reservations) + 1
                    /\ SubSeq(reservations', 1, Len(reservations)) = reservations
                    /\ reservations'[Len(reservations')].date_range.check_in >= now \div 24
                    /\ reservations'[Len(reservations')].date_range.check_out
                          - reservations'[Len(reservations')].date_range.check_in
                          = resOut'.arg
                    /\ reservations'[Len(reservations')].status = "PENDING"
               ELSE reservations' = reservations]_vars

\* C16 witness: a 31-night request was refused on the second day, with one
\* reservation already in the repository
C16_Witness ==
    /\ resOut.op = "create_reservation" /\ ~resOut.ok
    /\ resOut.arg = 31
    /\ Len(reservations) = 1
    /\ now >= 24

\* C17: no two reservations held in the reservation repository have the same
\* confirmation_code.
C17_UniqueCodes ==
    \A i, j \in 1..Len(reservations) :
        reservations[i].confirmation_code = reservations[j].confirmation_code => i = j

(***************************************************************************)
(* Claims about the WaitlistEntry aggregate (SpecWait).                    *)
(***************************************************************************)
\* The step is a call of op on the waitlist entry or service
EntCallOf(op) == now' = now /\ entryOut'.op = op

\* C21: a WaitlistEntry's status changes only from ACTIVE to CONVERTED,
\* EXPIRED or CANCELLED; a CONVERTED, EXPIRED or CANCELLED entry keeps its
\* status under every call.
C21_WaitlistTransitions ==
    [][waitlist'[1].status # waitlist[1].status =>
          /\ waitlist[1].status = "ACTIVE"
          /\ waitlist'[1].status \in {"CONVERTED", "EXPIRED", "CANCELLED"}]_vars

\* C21 witness: cancel was called on an EXPIRED entry, which is still EXPIRED
C21_Witness ==
    /\ entryOut.op = "cancel"
    /\ waitlist[1].status = "EXPIRED"

\* C22: convert_to_reservation(reservation_id) on an ACTIVE entry sets status
\* CONVERTED and converted_reservation_id = reservation_id; on any other
\* entry it raises and leaves both unchanged; a converted_reservation_id,
\* once set, is never overwritten.
C22_ConvertOnce ==
    [][/\ EntCallOf("convert_to_reservation") =>
            IF waitlist[1].status = "ACTIVE"
            THEN /\ entryOut'.ok
                 /\ waitlist'[1].status = "CONVERTED"
                 /\ waitlist'[1].converted_reservation_id = Some(entryOut'.arg)
            ELSE /\ ~entryOut'.ok
                 /\ waitlist'[1].status = waitlist[1].status
                 /\ waitlist'[1].converted_reservation_id
                       = waitlist[1].converted_reservation_id
       /\ waitlist[1].converted_reservation_id # None =>
            waitlist'[1].converted_reservation_id
                = waitlist[1].converted_reservation_id]_vars

\* C22 witness: an entry converted to reservation 1 refused a conversion to
\* reservation 2
C22_Witness ==
    /\ entryOut.op = "convert_to_reservation" /\ entryOut.arg = 2 /\ ~entryOut.ok
    /\ waitlist[1].status = "CONVERTED"
    /\ waitlist[1].converted_reservation_id = Some(1)

\* C23: on an entry that is not ACTIVE, expire, cancel and extend_expiry
\* raise nothing and leave status and expires_at unchanged; expire after
\* expire changes nothing; expire_entry on a stored entry that is not
\* ACTIVE returns it and leaves it unchanged.
C23_TerminalNoOp ==
    [][/\ (/\ now' = now
           /\ entryOut'.op \in {"expire", "cancel", "extend_expiry"}
           /\ waitlist[1].status # "ACTIVE") =>
              /\ entryOut'.ok
              /\ waitlist'[1].status = waitlist[1].status
              /\ waitlist'[1].expires_at = waitlist[1].expires_at
       /\ EntCallOf("expire") =>
              /\ waitlist'[1].status
                    = IF waitlist[1].status = "ACTIVE" THEN "EXPIRED"
                      ELSE waitlist[1].status
              /\ expire(waitlist'[1]) = [ok |-> TRUE, e |-> waitlist'[1]]
       /\ (/\ EntCallOf("expire_entry")
           /\ entryOut'.ret # None
           /\ waitlist[1].status # "ACTIVE") =>
              /\ entryOut'.ok
              /\ entryOut'.ret = Some(1)
              /\ waitlist' = waitlist]_vars

\* C23 witness: expire_entry returned a CANCELLED entry
C23_Witness ==
    /\ entryOut.op = "expire_entry" /\ entryOut.ok /\ entryOut.ret = Some(1)
    /\ waitlist[1].status = "CANCELLED"

\* C24: the priority of a WaitlistEntry never decreases; upgrade_priority(new)
\* sets the priority to new when new's ordinal is strictly greater than the
\* current one, and otherwise changes nothing and raises nothing.
C24_PriorityMonotone ==
    [][/\ waitlist'[1].priority >= waitlist[1].priority
       /\ EntCallOf("upgrade_priority") =>
            /\ entryOut'.ok
            /\ waitlist'[1] =
                  [waitlist[1] EXCEPT !.priority =
                      IF entryOut'.arg > @ THEN entryOut'.arg ELSE @]]_vars

\* C24 witness: upgrade_priority(LOW) was called on an URGENT entry
C24_Witness ==
    /\ entryOut.op = "upgrade_priority" /\ entryOut.arg = 1 /\ entryOut.ok
    /\ waitlist[1].priority = 4

\* C28: get_entries_to_notify returns an ACTIVE entry that was never
\* notified; after mark_notified it does not return the entry until 3 whole
\* days have passed since notified_at, and returns it from then on; it never
\* returns an entry that is not ACTIVE.
C28_NotifyAgain ==
    [][EntCallOf("get_entries_to_notify") =>
        entryOut'.ret =
            IF /\ waitlist[1].status = "ACTIVE"
               /\ \/ waitlist[1].notified_at = None
                  \/ now - waitlist[1].notified_at[1] >= 3 * 24
            THEN <<1>>
            ELSE <<>>]_vars

\* C28 witness: a notified entry is returned again
C28_Witness ==
    /\ entryOut.op = "get_entries_to_notify" /\ entryOut.ret = <<1>>
    /\ waitlist[1].notified_at # None

\* C27: calculate_priority_score() is priority ordinal x 100 + whole days
\* waited x 2 + (14 - whole days until expires_at) x 5, and a LOW entry made
\* by add_to_waitlist and scored at once (no time, or one unit of the clock,
\* after created_at) has 14 days to expiry and score 100.
C27_FreshScore ==
    [][EntCallOf("calculate_priority_score") =>
        LET e == waitlist[1]
            t == now + entryOut'.arg
        IN  /\ entryOut'.ret[1]
                  = e.priority * 100 + ((t - e.created_at) \div 24) * 2
                      + (14 - ((e.expires_at - t) \div 24)) * 5
            /\ (/\ e.priority = 1
                /\ e.expires_at = e.created_at + 14 * 24
                /\ t - e.created_at <= 1) =>
                  /\ (e.expires_at - t) \div 24 = 14
                  /\ entryOut'.ret[1] = 100]_vars

\* C40: a WaitlistEntry's converted_reservation_id is set if and only if its
\* status is CONVERTED; expire, cancel, extend_expiry, upgrade_priority and
\* mark_notified neither set nor clear it.
C40_ConversionId ==
    /\ [](waitlist[1].converted_reservation_id # None
            <=> waitlist[1].status = "CONVERTED")
    /\ [][(\E op \in {"expire", "cancel", "extend_expiry", "upgrade_priority",
                       "mark_notified", "expire_entry"} : EntCallOf(op)) =>
            waitlist'[1].converted_reservation_id
                = waitlist[1].converted_reservation_id]_vars

\* C40 witness: cancel was called on a CONVERTED entry, which still names its
\* reservation
C40_Witness ==
    /\ entryOut.op = "cancel"
    /\ waitlist[1].status = "CONVERTED"
    /\ waitlist[1].converted_reservation_id = Some(2)

\* C38: for a WaitlistEntry whose expires_at has passed (is_expired is true)
\* but on which expire was never called, convert_to_reservation, on the
\* entry or through WaitlistService, fails and leaves the entry unchanged.
C38_ExpiredNotConverted ==
    [][(/\ EntCallOf("convert_to_reservation")
             \/ EntCallOf("service.convert_to_reservation")
        /\ is_expired(waitlist[1], now)) =>
            /\ ~entryOut'.ok
            /\ waitlist' = waitlist]_vars

(***************************************************************************)
(* Claims about the WaitlistService list queries (SpecSort).               *)
(***************************************************************************)
\* The list is ordered by score at time t, highest first, and entries of equal
\* score are in the order they were stored
ByScoreStable(list, t) ==
    \A i, j \in 1..Len(list) :
        i < j =>
            LET si == calculate_priority_score(waitlist[list[i]], t)
                sj == calculate_priority_score(waitlist[list[j]], t)
            IN  si > sj \/ (si = sj /\ list[i] < list[j])

\* The list holds exactly the stored ids in the set, each once
HoldsExactly(list, ids) ==
    /\ {list[i] : i \in 1..Len(list)} = ids
    /\ Len(list) = Cardinality(ids)

\* C25: get_room_waitlist(room_type_id) returns exactly the stored entries of
\* that room type whose status is ACTIVE, ordered by calculate_priority_score()
\* descending, entries of equal score in their stored order.
C25_RoomWaitlist ==
    [][\A room_type_id \in RoomTypes :
          (EntCallOf("get_room_waitlist") /\ get_room_waitlist(room_type_id)) =>
              /\ HoldsExactly(entryOut'.ret,
                              {i \in 1..Len(waitlist) :
                                  /\ waitlist[i].room_type_id = room_type_id
                                  /\ waitlist[i].status = "ACTIVE"})
              /\ ByScoreStable(entryOut'.ret, now)]_vars

\* C25 witness: the query returned the second stored entry before the first
C25_Witness ==
    /\ entryOut.op = "get_room_waitlist"
    /\ Len(entryOut.ret) >= 2
    /\ entryOut.ret[1] = 2 /\ entryOut.ret[2] = 1

\* C26: get_active_waitlist() returns all stored ACTIVE entries sorted by
\* calculate_priority_score() descending, entries of equal score in their
\* stored order.
C26_ActiveWaitlist ==
    [][EntCallOf("get_active_waitlist") =>
          /\ HoldsExactly(entryOut'.ret,
                          {i \in 1..Len(waitlist) : waitlist[i].status = "ACTIVE"})
          /\ ByScoreStable(entryOut'.ret, now)]_vars

(***************************************************************************)
(* Claims about the special requests of create_reservation (SpecReq).      *)
(***************************************************************************)
\* The member of RequestType a type string names once upper-cased, if any
NamedMember ==
    [type \in RequestInputs |->
        IF type \in {"early_check_in"} THEN Some("EARLY_CHECK_IN")
        ELSE IF type \in {"Late_Check_Out", "LATE_CHECK_OUT"} THEN Some("LATE_CHECK_OUT")
        ELSE None]

\* The members named by the requests of the list, in input order
RECURSIVE KnownOf(_)
KnownOf(reqs) ==
    IF reqs = <<>> THEN <<>>
    ELSE NamedMember[Head(reqs)] \o KnownOf(Tail(reqs))

\* The room type of the last create_reservation call: the stored one, or, for
\* a refused call, which leaves the same state whatever the room type, any
RoomAsked ==
    IF reservations # <<>> THEN reservations[1].room_type_id ELSE InitialRoomType

\* C31: create_reservation succeeds whatever the types of the special requests
\* are: the stored reservation's special_requests are exactly the requests
\* whose upper-cased type names a RequestType member, in input order; a request
\* of unknown type is skipped without an error.
C31_RequestsBestEffort ==
    [][CallOf("create_reservation") =>
        \A check_in_date \in SvcDates, special_requests \in RequestLists :
            ReqCreate(RoomAsked', check_in_date, special_requests) =>
                /\ resOut'.ok = ~(check_in_date < Today(now))
                /\ resOut'.ok =>
                      /\ Len(reservations') = 1
                      /\ reservations'[1].special_requests = KnownOf(special_requests)]_vars

\* C31 witness: a stored reservation holds two requests in the order sent
C31_Witness ==
    /\ resOut.op = "create_reservation" /\ resOut.ok
    /\ Len(reservations) = 1
    /\ reservations[1].special_requests = <<"LATE_CHECK_OUT", "EARLY_CHECK_IN">>

(***************************************************************************)
(* Claims about the repositories (SpecRepo).                               *)
(***************************************************************************)
\* The keys of a dict
KeysOf(d) == {d[i].key : i \in 1..Len(d)}

\* C32: in each repository, update of a key that is not stored raises and
\* inserts nothing; save of a stored key replaces the entry, so that a key is
\* stored at most once; delete returns true exactly when the id was stored,
\* and find_by_id returns none for it afterwards.
C32_RepositoryKeys ==
    /\ [](\A d \in {reservations, waitlist} :
            \A i, j \in 1..Len(d) : d[i].key = d[j].key => i = j)
    /\ [](\A i, j \in 1..Len(storage) : storage[i].key = storage[j].key => i = j)
    /\ [][resOut'.repo \in IdRepos =>
            LET d == DictOf(resOut'.repo)
                after == IF resOut'.repo = "Reservation" THEN reservations' ELSE waitlist'
                key == resOut'.arg
            IN  /\ (resOut'.op = "update" /\ key \notin KeysOf(d)) =>
                      ~resOut'.ok /\ after = d
                /\ (resOut'.op = "save" /\ key \in KeysOf(d)) =>
                      /\ KeysOf(after) = KeysOf(d) /\ Len(after) = Len(d)
                      /\ repo_find_by_id(after, key) = resOut'.ret
                /\ resOut'.op = "delete" =>
                      /\ (resOut'.ret = 1) = (key \in KeysOf(d))
                      /\ repo_find_by_id(after, key) = 0]_vars
    /\ [][resOut'.repo = "Availability" =>
            LET key == Key(heap[resOut'.arg])
            IN  /\ (resOut'.op = "update" /\ key \notin KeysOf(storage)) =>
                      ~resOut'.ok /\ storage' = storage
                /\ (resOut'.op = "save" /\ key \in KeysOf(storage)) =>
                      /\ KeysOf(storage') = KeysOf(storage) /\ Len(storage') = Len(storage)
                      /\ find_by_room_and_date(storage', key[1], key[2])
                            = Some(resOut'.arg)]_vars

\* C32 witness: update was refused for an id deleted before, the other id
\* still stored
C32_Witness ==
    /\ resOut.repo = "Reservation" /\ resOut.op = "update" /\ ~resOut.ok
    /\ resOut.arg = 1 /\ KeysOf(reservations) = {2}

(***************************************************************************)
(* Claims about unknown ids and raised errors in the services (SpecErr).   *)
(***************************************************************************)
ReservationOps ==
    {"modify_reservation", "confirm_reservation", "check_in_guest", "check_out_guest",
     "cancel_reservation", "mark_no_show", "add_special_request"}

WaitlistOps ==
    {"service.convert_to_reservation", "expire_entry", "service.extend_expiry",
     "service.upgrade_priority", "service.mark_notified"}

\* The step is a call of a ReservationService method that takes an id
ReservationStep == now' = now /\ entryOut' = NoEntryCall /\ resOut'.op \in ReservationOps

\* The step is a call of a WaitlistService method that takes an id
WaitlistStep == now' = now /\ entryOut'.op \in WaitlistOps

\* C29: every ReservationService and WaitlistService method that takes an
\* aggregate id returns None without raising, and leaves every repository
\* unchanged, when no aggregate with that id is stored.
C29_UnknownId ==
    [][/\ (ReservationStep /\ resOut'.arg \notin 1..Len(reservations)) =>
              /\ resOut'.ok /\ resOut'.ret = 0
              /\ UNCHANGED <<reservations, waitlist, heap, storage>>
       /\ (WaitlistStep /\ entryOut'.id \notin 1..Len(waitlist)) =>
              /\ entryOut'.ok /\ entryOut'.ret = None
              /\ UNCHANGED <<reservations, waitlist, heap, storage>>]_vars

\* C29 witness: cancel_reservation returned None for id 2 while only id 1 is stored
C29_Witness ==
    /\ resOut.op = "cancel_reservation" /\ resOut.arg = 2
    /\ resOut.ok /\ resOut.ret = 0
    /\ Len(reservations) = 1

\* The service raised and the stored reservations are as before
ReservationRefused == ~resOut'.ok /\ reservations' = reservations

StoredReservation == heap[reservations[1]]

\* The calls that have returned without raising
Succeeded == {p \in 1..NumRaceCalls : procs[p].pc = "returned" /\ procs[p].ok}

\* The status changes the aggregate allows
StatusGraph ==
    {<<"PENDING", "CONFIRMED">>, <<"PENDING", "CHECKED_IN">>,
     <<"CONFIRMED", "CHECKED_IN">>, <<"CHECKED_IN", "CHECKED_OUT">>,
     <<"PENDING", "CANCELLED">>, <<"CONFIRMED", "CANCELLED">>,
     <<"PENDING", "NO_SHOW">>, <<"CONFIRMED", "NO_SHOW">>}

\* C36: under any interleaving of concurrent ReservationService calls
\* (confirm_reservation, check_in_guest, check_out_guest, cancel_reservation,
\* mark_no_show) on the same stored reservation, its status follows the
\* transition graph, at most one of cancel, check-in and no-show succeeds, and
\* once the calls have returned its version has grown by exactly the number
\* of calls that succeeded.
C36_Interleaved ==
    /\ [][StoredReservation'.status # StoredReservation.status =>
            <<StoredReservation.status, StoredReservation'.status>> \in StatusGraph]_vars
    /\ [](Cardinality({p \in Succeeded :
                          procs[p].op \in {"cancel_reservation", "check_in_guest",
                                           "mark_no_show"}}) <= 1)
    /\ []((\A p \in 1..NumRaceCalls : procs[p].pc \in {"idle", "returned"}) =>
            StoredReservation.version = 1 + Cardinality(Succeeded))

\* C36 witness: the second call made found the reservation, confirmed it and
\* returned while the first, a check_in_guest, was between its find and its
\* check_in; the first then checked the guest in and awaits update, and the
\* third call, a cancel_reservation, was refused
C36_Witness ==
    /\ procs[1].op = "check_in_guest" /\ procs[1].pc = "update" /\ procs[1].ok
    /\ procs[2].op = "confirm_reservation" /\ procs[2].pc = "returned" /\ procs[2].ok
    /\ procs[3].op = "cancel_reservation" /\ procs[3].pc = "returned" /\ ~procs[3].ok
    /\ StoredReservation.status = "CHECKED_IN"
    /\ StoredReservation.version = 3

(***************************************************************************)
(* Claims about the stored amount (SpecAmount).                            *)
(***************************************************************************)
\* C39: every reservation created through create_reservation has a
\* total_amount of nights x 1,000,000 in IDR in every state reachable through
\* the service operations, modify_reservation with new dates included; the
\* currency never changes.
C39_AmountOfNights ==
    /\ [](\A id \in 1..Len(reservations) :
            reservations[id].total_amount =
                [amount |-> (reservations[id].date_range.check_out
                               - reservations[id].date_range.check_in) * BaseRate,
                 currency |-> "IDR"])
    /\ [][\A id \in 1..Len(reservations) :
            reservations'[id].total_amount.currency
                = reservations[id].total_amount.currency]_vars

\* C39 witness: modify_reservation moved a confirmed reservation to a stay of
\* two nights, together with a new guest count, and the stored amount is
\* 2,000,000 IDR
C39_Witness ==
    /\ resOut.op = "modify_reservation" /\ resOut.ok /\ resOut.ret = 1
    /\ Len(reservations) >= 1
    /\ reservations[1].status = "CONFIRMED"
    /\ reservations[1].date_range = [check_in |-> 1, check_out |-> 3]
    /\ reservations[1].guest_count.adults = 2
    /\ reservations[1].total_amount = [amount |-> 2 * BaseRate, currency |-> "IDR"]

(***************************************************************************)
(* Claims about the Availability aggregate (SpecAvail).                    *)
(***************************************************************************)
\* The row of Scenario A: total 10, nothing reserved or blocked, no overbooking
ScenarioA(a) ==
    /\ a.total_rooms = 10 /\ a.reserved_rooms = 0 /\ a.blocked_rooms = 0
    /\ a.overbooking_threshold = 0

\* C3: reserve_rooms(count) succeeds exactly when available_rooms +
\* overbooking_threshold >= count, and then adds count to reserved_rooms and 1
\* to version; otherwise it raises and leaves the row unchanged.  On the row
\* of Scenario A check_availability(10) is true, reserve_rooms(11) fails and
\* reserve_rooms(10) succeeds and leaves available_rooms = 0.
C3_ReserveRooms ==
    [][/\ \A count \in Counts :
            AvReserveRooms(count) =>
                IF avail.total_rooms - avail.reserved_rooms - avail.blocked_rooms
                       + avail.overbooking_threshold >= count
                THEN /\ availOut'.ok
                     /\ avail' = [avail EXCEPT !.reserved_rooms = @ + count,
                                               !.version = @ + 1]
                ELSE /\ ~availOut'.ok
                     /\ avail' = avail
       /\ ScenarioA(avail) =>
            /\ check_availability(avail, 10)
            /\ AvReserveRooms(11) => ~availOut'.ok
            /\ AvReserveRooms(10) =>
                  availOut'.ok /\ available_rooms(avail') = 0]_vars

\* C3 witness: Scenario A after reserve_rooms(10), a call that raised and a
\* call that succeeded at the boundary both being reachable
C3_Witness ==
    /\ avail.total_rooms = 10 /\ avail.overbooking_threshold = 0
    /\ avail.reserved_rooms = 10 /\ avail.blocked_rooms = 0
    /\ avail.version = 2
    /\ availOut = [op |-> "reserve_rooms", ok |-> TRUE]

\* C5: from reserved_rooms = 0 and blocked_rooms = 0, after any sequence of
\* reserve_rooms, release_rooms, block_rooms and unblock_rooms calls with
\* count >= 1, reserved_rooms >= 0, blocked_rooms >= 0 and
\* blocked_rooms <= total_rooms.
C5_LedgerBounds ==
    countLo >= 1 =>
        /\ avail.reserved_rooms >= 0
        /\ avail.blocked_rooms >= 0
        /\ avail.blocked_rooms <= avail.total_rooms

\* C5 witness: every room blocked, rooms reserved on overbooking headroom, and
\* a release that asked for more than is reserved refused
C5_Witness ==
    /\ countLo >= 1
    /\ avail.total_rooms > 0
    /\ avail.blocked_rooms = avail.total_rooms
    /\ avail.reserved_rooms > 0
    /\ availOut = [op |-> "release_rooms", ok |-> FALSE]

\* C18: release_rooms(count) succeeds exactly when count <= reserved_rooms and
\* then subtracts count from reserved_rooms, unblock_rooms likewise for
\* blocked_rooms; otherwise the call raises and the row is unchanged.  After
\* every reserve_rooms(n) that succeeds, release_rooms(n) succeeds and gives
\* back the reserved_rooms from before the reserve, with total_rooms and
\* blocked_rooms as they were.
C18_ReleaseRoundTrip ==
    \A count \in Counts :
        LET released == release_rooms(avail, count)
            unblocked == unblock_rooms(avail, count)
            reserved == reserve_rooms(avail, count)
        IN  /\ IF count <= avail.reserved_rooms
               THEN /\ released.ok
                    /\ released.a = [avail EXCEPT !.reserved_rooms = @ - count,
                                                  !.version = @ + 1]
               ELSE ~released.ok /\ released.a = avail
            /\ IF count <= avail.blocked_rooms
               THEN /\ unblocked.ok
                    /\ unblocked.a = [avail EXCEPT !.blocked_rooms = @ - count,
                                                   !.version = @ + 1]
               ELSE ~unblocked.ok /\ unblocked.a = avail
            /\ reserved.ok =>
                  /\ release_rooms(reserved.a, count).ok
                  /\ release_rooms(reserved.a, count).a.reserved_rooms
                        = avail.reserved_rooms
                  /\ release_rooms(reserved.a, count).a.total_rooms = avail.total_rooms
                  /\ release_rooms(reserved.a, count).a.blocked_rooms
                        = avail.blocked_rooms

\* C18 witness: a reserve on overbooking headroom followed by the release of
\* the same count, which empties reserved_rooms again
C18_Witness ==
    /\ availOut = [op |-> "release_rooms", ok |-> TRUE]
    /\ avail.version = 3
    /\ avail.total_rooms = 0 /\ avail.overbooking_threshold = 1
    /\ avail.reserved_rooms = 0 /\ avail.blocked_rooms = 0

\* C19: block_rooms(count) succeeds exactly when blocked_rooms + count <=
\* total_rooms, whatever reserved_rooms and overbooking_threshold are, and
\* then adds count to blocked_rooms; otherwise it raises and the row is
\* unchanged.
C19_BlockRooms ==
    \A count \in Counts :
        LET blocked == block_rooms(avail, count)
        IN  IF avail.blocked_rooms + count <= avail.total_rooms
            THEN /\ blocked.ok
                 /\ blocked.a = [avail EXCEPT !.blocked_rooms = @ + count,
                                              !.version = @ + 1]
            ELSE ~blocked.ok /\ blocked.a = avail

\* C19 witness: every room blocked by a call made while rooms were reserved,
\* so that reserved and blocked rooms together exceed the total
C19_Witness ==
    /\ availOut = [op |-> "block_rooms", ok |-> TRUE]
    /\ avail.blocked_rooms = avail.total_rooms
    /\ avail.reserved_rooms > 0
    /\ avail.overbooking_threshold = 0

\* C33: starting from a row with nothing reserved or blocked, calls of
\* reserve_rooms, release_rooms, block_rooms and unblock_rooms with counts >= 1
\* keep reserved_rooms + blocked_rooms <= total_rooms + overbooking_threshold,
\* that is available_rooms >= -overbooking_threshold.
C33_OverbookingHeadroom ==
    countLo >= 1 =>
        /\ avail.reserved_rooms + avail.blocked_rooms
              <= avail.total_rooms + avail.overbooking_threshold
        /\ available_rooms(avail) >= -avail.overbooking_threshold

\* C37: whatever integer count is passed to reserve_rooms, release_rooms,
\* block_rooms or unblock_rooms, reserved_rooms and blocked_rooms stay >= 0,
\* blocked_rooms stays <= total_rooms, and reserved_rooms increases only in a
\* call whose count passed check_availability.
C37_LedgerBounds ==
    /\ [](/\ avail.reserved_rooms >= 0
          /\ avail.blocked_rooms >= 0
          /\ avail.blocked_rooms <= avail.total_rooms)
    /\ [][avail'.reserved_rooms > avail.reserved_rooms =>
            /\ availOut'.op = "reserve_rooms"
            /\ check_availability(avail, avail'.reserved_rooms - avail.reserved_rooms)]_vars

(***************************************************************************)
(* Claims about AvailabilityService (SpecConc, SpecSvc, SpecChk).          *)
(***************************************************************************)
RECURSIVE Credited(_)
\* The counts credited by the calls 1..n that have returned
Credited(n) ==
    IF n = 0 THEN 0
    ELSE Credited(n - 1) + (IF procs[n].pc = "returned" THEN Credit(procs[n]) ELSE 0)

\* reserved_rooms of the stored row before the first call: the first
\* coroutine called found the row as it was
InitialReserved ==
    IF procs[1].pc = "idle" THEN Stored(heap, storage, 1).reserved_rooms
    ELSE procs[1].pre[1].reserved_rooms

\* Scenario E: the stored row had total 10 and nothing reserved or blocked, no
\* overbooking, and every call made is reserve_rooms(6)
ScenarioE ==
    /\ ScenarioA([Stored(heap, storage, 1) EXCEPT
                     !.reserved_rooms = InitialReserved])
    /\ \A p \in 1..NumCalls :
          procs[p].pc # "idle" => procs[p].op = "reserve_rooms" /\ procs[p].count = 6

\* C2: concurrent reserve_rooms(6) calls on the one stored row of Scenario E
\* never both return true, however their find, mutate and update steps
\* interleave, and the stored row's reserved_rooms never exceeds total_rooms +
\* overbooking_threshold.
C2_NoDoubleReserve ==
    /\ Len(storage) = 1
    /\ Stored(heap, storage, 1).reserved_rooms
           <= Stored(heap, storage, 1).total_rooms
                + Stored(heap, storage, 1).overbooking_threshold
    /\ ScenarioE =>
          \A p, q \in 1..NumCalls :
              /\ procs[p].pc = "returned" /\ procs[p].result
              /\ procs[q].pc = "returned" /\ procs[q].result
              => p = q

\* C2 witness: in Scenario E two calls found the row before either reserved
\* (both saw reserved_rooms = 0); one returned true, the other false
C2_Witness ==
    /\ ScenarioE
    /\ \E p, q \in 1..NumCalls :
          /\ procs[p].pc = "returned" /\ procs[p].result
          /\ procs[q].pc = "returned" /\ ~procs[q].result
          /\ procs[p].pre[1].reserved_rooms = 0
          /\ procs[q].pre[1].reserved_rooms = 0
    /\ Stored(heap, storage, 1).reserved_rooms = 6

\* No call is between its find and its return
Quiescent == \A p \in 1..NumCalls : procs[p].pc \in {"idle", "returned"}

\* C6: under any interleaving of reserve_rooms and release_rooms calls on one
\* stored row no update is lost: once the calls have returned, the stored
\* reserved_rooms is the initial value plus the counts of the reserve calls
\* that returned true minus the counts of the release calls that returned
\* true.
C6_NoLostUpdate ==
    Quiescent => Stored(heap, storage, 1).reserved_rooms
                    = InitialReserved + Credited(NumCalls)

\* C6 witness: three calls that all found the row before any of them changed
\* it, reserve and release among them, have all returned true
C6_Witness ==
    /\ Quiescent
    /\ \A p \in 1..NumCalls :
          /\ procs[p].pc = "returned" /\ procs[p].result
          /\ procs[p].pre[1].version = 1
    /\ \E p, q \in 1..NumCalls :
          procs[p].op = "reserve_rooms" /\ procs[q].op = "release_rooms"
    /\ Stored(heap, storage, 1).version = 4

\* The row a mutator leaves when it does not raise
Applied(op, a, count) ==
    CASE op = "reserve_rooms" ->
            [a EXCEPT !.reserved_rooms = @ + count, !.version = @ + 1]
      [] op = "release_rooms" ->
            [a EXCEPT !.reserved_rooms = @ - count, !.version = @ + 1]
      [] op = "block_rooms" ->
            [a EXCEPT !.blocked_rooms = @ + count, !.version = @ + 1]
      [] op = "unblock_rooms" ->
            [a EXCEPT !.blocked_rooms = @ - count, !.version = @ + 1]

\* C4: when a reserve_rooms, release_rooms, block_rooms or unblock_rooms call
\* over several rows has the mutator raise on row k, the call returns false,
\* the rows before k keep the change applied to them (as objects and as
\* stored rows), and row k and every later row are unchanged.
C4_PartialFailure ==
    LET c == procs[1]
    IN  (c.pc = "returned" /\ ~c.result /\ c.rows # <<>>) =>
            \A j \in 1..Len(c.rows) :
                /\ heap[c.rows[j]] =
                      IF j < c.i THEN Applied(c.op, c.pre[c.rows[j]], c.count)
                      ELSE c.pre[c.rows[j]]
                /\ find_by_room_and_date(storage, heap[c.rows[j]].room_type_id,
                                         heap[c.rows[j]].availability_date)
                      = Some(c.rows[j])

\* C4 witness: a call over two rows returned false on the second row after
\* changing the first
C4_Witness ==
    LET c == procs[1]
    IN  /\ c.pc = "returned" /\ ~c.result
        /\ Len(c.rows) = 2 /\ c.i = 2
        /\ heap[c.rows[1]] # c.pre[c.rows[1]]
        /\ heap[c.rows[2]] = c.pre[c.rows[2]]

\* No stored row of the room type has a date d with start_date <= d < end_date
NoRowIn(room_type_id, start_date, end_date) ==
    ~\E i \in 1..Len(storage) :
        /\ Stored(heap, storage, i).room_type_id = room_type_id
        /\ start_date <= Stored(heap, storage, i).availability_date
        /\ Stored(heap, storage, i).availability_date < end_date

\* C20: a check_availability, reserve_rooms, release_rooms, block_rooms or
\* unblock_rooms call of AvailabilityService for which no row of the room
\* type has a date d with start_date <= d < end_date (so every call with
\* start_date = end_date) returns false without raising and changes no row.
C20_NoRows ==
    /\ [](\A room_type_id \in RoomTypes, start_date \in SvcDates, end_date \in 0..NumDates :
            NoRowIn(room_type_id, start_date, end_date) =>
                find_by_room_and_date_range(heap, storage, room_type_id, start_date,
                                            end_date).rows = <<>>)
    /\ [][(procs[1].pc = "idle" /\ procs'[1].op \in ServiceOps /\ procs'[1].rows = <<>>) =>
            /\ procs'[1].pc = "returned"
            /\ ~procs'[1].result
            /\ heap' = heap
            /\ storage' = storage]_vars
    /\ [][(procs[1].pc = "idle" /\ procs'[1].op = "check_availability") =>
            \A room_type_id \in RoomTypes, start_date \in SvcDates, end_date \in 0..NumDates :
                (/\ NoRowIn(room_type_id, start_date, end_date)
                 /\ service_check_availability(1, room_type_id, start_date, end_date,
                                               procs'[1].count))
                => /\ procs'[1].pc = "returned"
                   /\ ~procs'[1].result
                   /\ heap' = heap
                   /\ storage' = storage]_vars

\* C20 witness: with both nights stored, a reserve_rooms call found no row
\* and returned false
C20_Witness ==
    /\ Len(storage) = NumDates
    /\ procs[1].pc = "returned" /\ ~procs[1].result
    /\ procs[1].op = "reserve_rooms"
    /\ procs[1].rows = <<>>

\* The stored row of the room type for the night of d, as a set of heap
\* references (empty when the night has no row)
RowOf(room_type_id, d) ==
    {storage[i].ref : i \in {j \in 1..Len(storage) :
                                 storage[j].key = <<room_type_id, d>>}}

\* C34: when AvailabilityService.reserve_rooms returns true, every night d
\* with start_date <= d < end_date has a stored row whose reserved_rooms the
\* call raised by count (a range with a night that has no row is never
\* reported as reserved); check_availability returns true only if every
\* night of the range has a stored row that accepts the count.
C34_EveryNight ==
    /\ [](LET c == procs[1]
          IN  (c.pc = "returned" /\ c.op = "reserve_rooms" /\ c.result) =>
                  \A d \in c.start_date..(c.end_date - 1) :
                      \E ref \in RowOf(InitialRoomType, d) :
                          heap[ref].reserved_rooms = c.pre[ref].reserved_rooms + c.count)
    /\ [][(procs[1].pc = "idle" /\ procs'[1].op = "check_availability"
                               /\ procs'[1].result) =>
            \A start_date \in SvcDates, end_date \in 0..NumDates :
                service_check_availability(1, InitialRoomType, start_date, end_date,
                                           procs'[1].count)
                => \A d \in start_date..(end_date - 1) :
                      \E ref \in RowOf(InitialRoomType, d) :
                          check_availability(heap[ref], procs'[1].count)]_vars

\* C35: create_availability for a (room_type_id, date) that already has a
\* stored row does not discard inventory: the stored row's reserved_rooms and
\* blocked_rooms are not lower after the call than before it, and a stored
\* row's reserved_rooms changes only through reserve_rooms and release_rooms.
C35_KeepsInventory ==
    [][\A i \in 1..Len(storage) :
          \E j \in 1..Len(storage') :
              /\ storage'[j].key = storage[i].key
              /\ LET before == heap[storage[i].ref]
                     after == heap'[storage'[j].ref]
                 IN  /\ procs' = procs =>
                            /\ after.reserved_rooms >= before.reserved_rooms
                            /\ after.blocked_rooms >= before.blocked_rooms
                     /\ after.reserved_rooms # before.reserved_rooms =>
                            /\ procs[1].pc = "mutate"
                            /\ procs[1].op \in {"reserve_rooms", "release_rooms"}]_vars

(***************************************************************************)
(* Claims about the service layer (SpecSys).                               *)
(***************************************************************************)
\* The stored reservations that hold a room of the type on the night of d
Holding(room_type_id, d) ==
    {id \in 1..Len(reservations) :
        /\ reservations[id].status \in {"PENDING", "CONFIRMED", "CHECKED_IN"}
        /\ reservations[id].room_type_id = room_type_id
        /\ reservations[id].date_range.check_in <= d
        /\ d < reservations[id].date_range.check_out}

\* C7: in every state reachable through the services, every stored
\* Availability row's reserved_rooms is at least the number of stored
\* reservations in status PENDING, CONFIRMED or CHECKED_IN for its room type
\* whose date range covers its night.
C7_Correlated ==
    \A i \in 1..Len(storage) :
        Stored(heap, storage, i).reserved_rooms
            >= Cardinality(Holding(Stored(heap, storage, i).room_type_id,
                                   Stored(heap, storage, i).availability_date))

====
